---- MODULE Spec2Model ----
(***************************************************************************)
(* ForgeDB storage engine: pager (buffer pool, free list, header page),    *)
(* slotted leaf pages, fixed-cell internal pages, B+ tree and Bloom        *)
(* filter.  Pages are modelled as byte arrays with the layout of           *)
(* include/common.h, and every node accessor reads and writes the same     *)
(* offsets as the C++ accessor it is named after.                          *)
(***************************************************************************)
EXTENDS Integers, Sequences, FiniteSets, TLC

\* ------------------------------------------------------------------------
\* Bounds of the model (scaled-down sizes and input domains)
\* ------------------------------------------------------------------------
PAGE_SIZE == 57
INTERNAL_MAX_CELLS == 3
BUFFER_POOL_SIZE == 5
MaxKey == 8
MaxOps == 1

\* ------------------------------------------------------------------------
\* Program constants (include/common.h), with the values the compiler
\* gives their defining expressions
\* ------------------------------------------------------------------------
NODE_INTERNAL == 0
NODE_LEAF == 1
NODE_FREE == 2
OFFSET_TYPE == 0
OFFSET_IS_ROOT == 1
OFFSET_CHECKSUM == 2
HEADER_SIZE == 6
OFFSET_LEAF_NUM_CELLS == 6
OFFSET_LEAF_DATA_END == 10
OFFSET_LEAF_TOTAL_FREE == 12
OFFSET_LEAF_NEXT == 14
LEAF_HEADER_SIZE == 18
SLOT_SIZE == 4
LEAF_USABLE_SPACE == PAGE_SIZE - LEAF_HEADER_SIZE
OFFSET_INTERNAL_NUM_KEYS == 6
OFFSET_INTERNAL_RIGHT_CHILD == 10
INTERNAL_HEADER_SIZE == 14
INTERNAL_CELL_SIZE == 8
LEAF_MIN_CELLS == 2
INTERNAL_MIN_KEYS == INTERNAL_MAX_CELLS \div 2
DB_MAGIC == 984283
HEADER_PAGE == 0
ROOT_PAGE == 1
SIZEOF_DbHeader == 20
BLOOM_OFFSET == 20
BLOOM_SIZE == PAGE_SIZE - BLOOM_OFFSET
BLOOM_BITS == BLOOM_SIZE * 8
USERNAME_CAP == 32
EMAIL_CAP == 255

\* ------------------------------------------------------------------------
\* Bytes and little-endian fields of a page frame
\* ------------------------------------------------------------------------
Offsets == 0 .. (PAGE_SIZE - 1)
ZeroPage == [i \in Offsets |-> 0]

\* v bound to a name: F applied to v
With(v, F(_)) == F(v)

Max(a, b) == IF a < b THEN b ELSE a

U16(p, off) == p[off] + 256 * p[off + 1]
U32(p, off) == p[off] + 256 * p[off + 1] + 65536 * p[off + 2] + 16777216 * p[off + 3]

PutU8(p, off, v) == [p EXCEPT ![off] = v % 256]
PutU16(p, off, v) == [p EXCEPT ![off] = v % 256, ![off + 1] = (v \div 256) % 256]
PutU32(p, off, v) ==
    [p EXCEPT ![off] = v % 256, ![off + 1] = (v \div 256) % 256,
              ![off + 2] = (v \div 65536) % 256, ![off + 3] = (v \div 16777216) % 256]

\* memcpy(dst + doff, bytes, Len(bytes))
PutBytes(p, doff, bytes) ==
    [i \in Offsets |-> IF i >= doff /\ i < doff + Len(bytes) THEN bytes[i - doff + 1] ELSE p[i]]
\* the len bytes of p starting at off
GetBytes(p, off, len) == [i \in 1 .. len |-> p[off + i - 1]]

LE16(v) == << v % 256, (v \div 256) % 256 >>
LE32(v) == << v % 256, (v \div 256) % 256, (v \div 65536) % 256, (v \div 16777216) % 256 >>

\* A char buffer read as a C string: the bytes before the first NUL.
RECURSIVE CStr(_)
CStr(bytes) ==
    IF bytes = << >> \/ Head(bytes) = 0 THEN << >>
    ELSE << Head(bytes) >> \o CStr(Tail(bytes))

\* ------------------------------------------------------------------------
\* Row codec (src/utils.cpp)
\* ------------------------------------------------------------------------
serialized_row_size(row) == 4 + 2 + Len(row.username) + 2 + Len(row.email)

serialize_row(row) ==
    LE32(row.id) \o LE16(Len(row.username)) \o row.username
                 \o LE16(Len(row.email)) \o row.email

\* deserialize_row reads the record that starts at byte off of frame p
deserialize_row(p, off) ==
    LET ulen == U16(p, off + 4)
        elen == U16(p, off + 6 + ulen)
    IN  [id |-> U32(p, off),
         username |-> CStr(GetBytes(p, off + 6, ulen)),
         email |-> CStr(GetBytes(p, off + 8 + ulen, elen))]

\* every byte deserialize_row touches lies inside the frame and the Row buffers
RecordInBounds(p, off) ==
    /\ off + 8 <= PAGE_SIZE
    /\ LET ulen == U16(p, off + 4)
       IN  /\ ulen < USERNAME_CAP
           /\ off + 8 + ulen <= PAGE_SIZE
           /\ LET elen == U16(p, off + 6 + ulen)
              IN  elen < EMAIL_CAP /\ off + 8 + ulen + elen <= PAGE_SIZE

\* ------------------------------------------------------------------------
\* Node: common header (include/node.h)
\* ------------------------------------------------------------------------
get_type(p) == p[OFFSET_TYPE]
set_type(p, t) == PutU8(p, OFFSET_TYPE, t)
is_root(p) == p[OFFSET_IS_ROOT] # 0
set_root(p, b) == PutU8(p, OFFSET_IS_ROOT, IF b THEN 1 ELSE 0)

\* ------------------------------------------------------------------------
\* LeafNode (include/node.h, src/node.cpp)
\* ------------------------------------------------------------------------
get_num_cells(p) == U32(p, OFFSET_LEAF_NUM_CELLS)
set_num_cells(p, n) == PutU32(p, OFFSET_LEAF_NUM_CELLS, n)
get_data_end(p) == U16(p, OFFSET_LEAF_DATA_END)
set_data_end(p, v) == PutU16(p, OFFSET_LEAF_DATA_END, v)
get_total_free(p) == U16(p, OFFSET_LEAF_TOTAL_FREE)
set_total_free(p, v) == PutU16(p, OFFSET_LEAF_TOTAL_FREE, v % 65536)
get_next_leaf(p) == U32(p, OFFSET_LEAF_NEXT)
set_next_leaf(p, pg) == PutU32(p, OFFSET_LEAF_NEXT, pg)
slot_offset(p, i) == U16(p, LEAF_HEADER_SIZE + i * SLOT_SIZE)
set_slot_offset(p, i, v) == PutU16(p, LEAF_HEADER_SIZE + i * SLOT_SIZE, v)
slot_length(p, i) == U16(p, LEAF_HEADER_SIZE + i * SLOT_SIZE + 2)
set_slot_length(p, i, v) == PutU16(p, LEAF_HEADER_SIZE + i * SLOT_SIZE + 2, v)

LeafNode_initialize(p) ==
    set_next_leaf(set_total_free(set_data_end(set_num_cells(set_root(
        set_type(p, NODE_LEAF), FALSE), 0), PAGE_SIZE % 65536), LEAF_USABLE_SPACE), 0)

LeafNode_get_key(p, i) == U32(p, slot_offset(p, i))
LeafNode_get_row(p, i) == deserialize_row(p, slot_offset(p, i))

can_fit(p, record_size) == get_total_free(p) >= record_size + SLOT_SIZE

contiguous_free(p) ==
    LET slot_end == (LEAF_HEADER_SIZE + get_num_cells(p) * SLOT_SIZE) % 65536
    IN  (get_data_end(p) - slot_end) % 65536

leaf_underflow(p) ==
    IF get_num_cells(p) < LEAF_MIN_CELLS THEN TRUE
    ELSE LET used == (LEAF_USABLE_SPACE - get_total_free(p)) % 65536
         IN  used < LEAF_USABLE_SPACE \div 2

\* The frame can be read as a leaf without leaving the frame: the slot
\* directory and every record a slot points to lie inside the page.
LeafReadable(p) ==
    /\ LEAF_HEADER_SIZE + get_num_cells(p) * SLOT_SIZE <= PAGE_SIZE
    /\ \A i \in 0 .. (get_num_cells(p) - 1) :
          /\ RecordInBounds(p, slot_offset(p, i))
          /\ slot_offset(p, i) + slot_length(p, i) <= PAGE_SIZE

\* defragment: the loop over the slots, tmp is the scratch page
RECURSIVE defragment_loop(_, _, _, _)
defragment_loop(p, tmp, new_end, i) ==
    IF i >= get_num_cells(p) THEN [p |-> p, tmp |-> tmp, new_end |-> new_end]
    ELSE LET len == slot_length(p, i)
             ne == new_end - len
         IN  defragment_loop(set_slot_offset(p, i, ne),
                             PutBytes(tmp, ne, GetBytes(p, slot_offset(p, i), len)),
                             ne, i + 1)

defragment(p) ==
    IF get_num_cells(p) = 0 THEN p
    ELSE With(defragment_loop(p, ZeroPage, PAGE_SIZE, 0), LAMBDA r :
         set_data_end(PutBytes(r.p, r.new_end,
                               GetBytes(r.tmp, r.new_end, PAGE_SIZE - r.new_end)),
                      r.new_end))

\* sum of the record lengths of the slots (what defragment packs at the tail)
RECURSIVE SlotBytes(_, _)
SlotBytes(p, n) == IF n = 0 THEN 0 ELSE slot_length(p, n - 1) + SlotBytes(p, n - 1)

\* binary search of LeafNode::insert (lower bound)
RECURSIVE leaf_lower_bound(_, _, _, _)
leaf_lower_bound(p, key, lo, hi) ==
    IF lo >= hi THEN lo
    ELSE LET mid == (lo + hi) \div 2
         IN  IF LeafNode_get_key(p, mid) < key
             THEN leaf_lower_bound(p, key, mid + 1, hi)
             ELSE leaf_lower_bound(p, key, lo, mid)

\* shift slot entries right to open the slot at idx (i runs from n down to idx+1)
RECURSIVE shift_slots_right(_, _, _)
shift_slots_right(p, i, idx) ==
    IF i <= idx THEN p
    ELSE shift_slots_right(
            set_slot_length(set_slot_offset(p, i, slot_offset(p, i - 1)),
                            i, slot_length(p, i - 1)),
            i - 1, idx)

\* LeafNode::insert stays inside the frame: the slot directory with n + 1 slots
\* fits, defragment's packing does not run below byte 0, and neither does the
\* new record
LeafInsertInBounds(p, row) ==
    LET n == get_num_cells(p)
        rec_size == serialized_row_size(row)
        defrag == contiguous_free(p) < rec_size + SLOT_SIZE
        data_end == IF defrag /\ n > 0 THEN PAGE_SIZE - SlotBytes(p, n) ELSE get_data_end(p)
    IN  /\ LeafReadable(p)
        /\ LEAF_HEADER_SIZE + (n + 1) * SLOT_SIZE <= PAGE_SIZE
        /\ data_end <= PAGE_SIZE
        /\ data_end - rec_size >= 0

\* LeafNode::insert from "Write Record" on: the record goes below data_end of p1
\* (the frame, defragmented if it had to be), its slot at idx
write_record(p1, buf, n, idx) ==
    With((get_data_end(p1) - Len(buf)) % 65536, LAMBDA new_end :
    With(set_slot_length(
             set_slot_offset(
                 shift_slots_right(set_data_end(PutBytes(p1, new_end, buf), new_end), n, idx),
                 idx, new_end),
             idx, Len(buf)), LAMBDA p4 :
    set_total_free(set_num_cells(p4, n + 1), get_total_free(p4) - Len(buf) - SLOT_SIZE)))

LeafNode_insert(p, key, row) ==
    With(serialize_row(row), LAMBDA buf :
    write_record(IF contiguous_free(p) < Len(buf) + SLOT_SIZE THEN defragment(p) ELSE p,
                 buf, get_num_cells(p), leaf_lower_bound(p, key, 0, get_num_cells(p))))

RECURSIVE shift_slots_left(_, _, _)
shift_slots_left(p, i, n) ==
    IF i >= n - 1 THEN p
    ELSE shift_slots_left(
            set_slot_length(set_slot_offset(p, i, slot_offset(p, i + 1)),
                            i, slot_length(p, i + 1)),
            i + 1, n)

remove_at(p, idx) ==
    With(shift_slots_left(p, idx, get_num_cells(p)), LAMBDA p1 :
    set_total_free(set_num_cells(p1, get_num_cells(p) - 1),
                   get_total_free(p1) + slot_length(p, idx) + SLOT_SIZE))

\* binary search for an exact key (LeafNode::remove, BTree::insert):
\* the slot index of key, or -1
RECURSIVE leaf_search(_, _, _, _)
leaf_search(p, key, lo, hi) ==
    IF lo >= hi THEN -1
    ELSE LET mid == (lo + hi) \div 2
             mk == LeafNode_get_key(p, mid)
         IN  IF mk < key THEN leaf_search(p, key, mid + 1, hi)
             ELSE IF mk > key THEN leaf_search(p, key, lo, mid)
             ELSE mid

\* LeafNode::remove: [found, p]
LeafNode_remove(p, key) ==
    With(leaf_search(p, key, 0, get_num_cells(p)), LAMBDA mid :
    IF mid = -1 THEN [found |-> FALSE, p |-> p]
    ELSE [found |-> TRUE, p |-> remove_at(p, mid)])

\* ------------------------------------------------------------------------
\* InternalNode (include/node.h, src/node.cpp)
\* ------------------------------------------------------------------------
get_num_keys(p) == U32(p, OFFSET_INTERNAL_NUM_KEYS)
set_num_keys(p, n) == PutU32(p, OFFSET_INTERNAL_NUM_KEYS, n)
get_right_child(p) == U32(p, OFFSET_INTERNAL_RIGHT_CHILD)
set_right_child(p, c) == PutU32(p, OFFSET_INTERNAL_RIGHT_CHILD, c)
\* byte offset of cell index:  [child:4][key:4]
get_cell(index) == INTERNAL_HEADER_SIZE + index * INTERNAL_CELL_SIZE
cell_child(p, index) == U32(p, get_cell(index))
set_cell_child(p, index, c) == PutU32(p, get_cell(index), c)
InternalNode_get_key(p, index) == U32(p, get_cell(index) + 4)
InternalNode_set_key(p, index, key) == PutU32(p, get_cell(index) + 4, key)
\* memcpy(get_cell(dst), get_cell(src), INTERNAL_CELL_SIZE)
copy_cell(p, dst, src) ==
    PutBytes(p, get_cell(dst), GetBytes(p, get_cell(src), INTERNAL_CELL_SIZE))

InternalNode_initialize(p) ==
    set_root(set_num_keys(set_type(p, NODE_INTERNAL), 0), FALSE)

get_child(p, index) ==
    IF index = get_num_keys(p) THEN get_right_child(p) ELSE cell_child(p, index)

set_child(p, index, child_page) ==
    IF index = get_num_keys(p) THEN set_right_child(p, child_page)
    ELSE set_cell_child(p, index, child_page)

\* cells 0 .. n-1 lie inside the frame
CellsInBounds(n) == INTERNAL_HEADER_SIZE + n * INTERNAL_CELL_SIZE <= PAGE_SIZE
InternalReadable(p) == CellsInBounds(get_num_keys(p))

RECURSIVE find_child_loop(_, _, _, _)
find_child_loop(p, key, lo, hi) ==
    IF lo >= hi THEN lo
    ELSE LET mid == (lo + hi) \div 2
         IN  IF InternalNode_get_key(p, mid) <= key
             THEN find_child_loop(p, key, mid + 1, hi)
             ELSE find_child_loop(p, key, lo, mid)

\* find_child with a search key equal to a separator routed to the left
find_child_left(p, key) ==
    With(find_child_loop(p, key, 0, get_num_keys(p)), LAMBDA i :
        get_child(p, IF i > 0 /\ InternalNode_get_key(p, i - 1) = key THEN i - 1 ELSE i))
find_child(p, key) == get_child(p, find_child_loop(p, key, 0, get_num_keys(p)))

\* for (i = num - 1; i > index + 1; i--) memcpy(cell(i), cell(i - 1))
RECURSIVE insert_child_shift(_, _, _)
insert_child_shift(p, i, index) ==
    IF i <= index + 1 THEN p
    ELSE insert_child_shift(copy_cell(p, i, i - 1), i - 1, index)

insert_child(p, index, key, new_child_page) ==
    LET num == get_num_keys(p)
    IN  IF index = num
        THEN set_num_keys(
                set_right_child(
                    InternalNode_set_key(set_cell_child(p, num, get_right_child(p)), num, key),
                    new_child_page),
                num + 1)
        ELSE With(set_cell_child(p, num, get_right_child(p)), LAMBDA p1 :
             With(insert_child_shift(
                      InternalNode_set_key(p1, num, InternalNode_get_key(p1, num - 1)),
                      num - 1, index), LAMBDA p3 :
             set_num_keys(
                 InternalNode_set_key(
                     set_cell_child(InternalNode_set_key(p3, index, key),
                                    index + 1, new_child_page),
                     index + 1, InternalNode_get_key(p3, index)),
                 num + 1)))

\* for (i = key_index; i < num - 1; i++) memcpy(cell(i), cell(i + 1))
RECURSIVE remove_key_shift(_, _, _)
remove_key_shift(p, i, num) ==
    IF i >= num - 1 THEN p
    ELSE remove_key_shift(copy_cell(p, i, i + 1), i + 1, num)

\* remove_key without the saved left child written back
remove_key_left(p, key_index) ==
    LET num == get_num_keys(p)
    IN  IF key_index = num - 1
        THEN set_num_keys(set_right_child(p, cell_child(p, key_index)), num - 1)
        ELSE set_num_keys(remove_key_shift(p, key_index, num), num - 1)
remove_key(p, key_index) ==
    LET num == get_num_keys(p)
    IN  IF key_index = num - 1
        THEN set_num_keys(set_right_child(p, cell_child(p, key_index)), num - 1)
        ELSE set_num_keys(set_cell_child(remove_key_shift(p, key_index, num), key_index,
                                         cell_child(p, key_index)),
                          num - 1)

\* ------------------------------------------------------------------------
\* CRC32 (src/utils.cpp): 32-bit words are four bytes, least significant first
\* ------------------------------------------------------------------------
RECURSIVE XorBits(_, _, _)
XorBits(a, b, n) ==
    IF n = 0 THEN 0
    ELSE (((a % 2) + (b % 2)) % 2) + 2 * XorBits(a \div 2, b \div 2, n - 1)

XorTab == [a \in 0 .. 255 |-> [b \in 0 .. 255 |-> XorBits(a, b, 8)]]
Xor8(a, b) == XorTab[a][b]
Xor32(x, y) == << Xor8(x[1], y[1]), Xor8(x[2], y[2]), Xor8(x[3], y[3]), Xor8(x[4], y[4]) >>
\* c >> 1 and c >> 8 on four-byte words
Shr1(c) == << (c[1] \div 2) + 128 * (c[2] % 2), (c[2] \div 2) + 128 * (c[3] % 2),
              (c[3] \div 2) + 128 * (c[4] % 2), c[4] \div 2 >>
Shr8(c) == << c[2], c[3], c[4], 0 >>
CRC_POLY == << 32, 131, 184, 237 >>
ALL_ONES == << 255, 255, 255, 255 >>

RECURSIVE crc32_init_entry(_, _)
crc32_init_entry(c, j) ==
    IF j = 0 THEN c
    ELSE crc32_init_entry(IF c[1] % 2 = 1 THEN Xor32(CRC_POLY, Shr1(c)) ELSE Shr1(c), j - 1)

crc32_table == [i \in 0 .. 255 |-> crc32_init_entry(<< i, 0, 0, 0 >>, 8)]

RECURSIVE crc32_loop(_, _, _)
crc32_loop(p, i, crc) ==
    IF i >= PAGE_SIZE \/ Len(crc) # 4 THEN crc
    ELSE crc32_loop(p, i + 1, Xor32(crc32_table[Xor8(crc[1], p[i])], Shr8(crc)))

\* crc32_compute over the whole frame: the four bytes of the result
crc32_compute(p) == Xor32(crc32_loop(p, 0, ALL_ONES), ALL_ONES)

get_checksum(p) == GetBytes(p, OFFSET_CHECKSUM, 4)
set_checksum(p, crc) == PutBytes(p, OFFSET_CHECKSUM, crc)

\* ------------------------------------------------------------------------
\* Engine state threaded through the operations.
\*   header      Pager::header (DbHeader)
\*   pool        Pager::pool: resident page number -> frame
\*   lru_order   Pager::lru_order, front = MRU
\*   pin_counts  Pager::pin_counts
\*   file        the pages of the database file, page n at index n + 1
\*   file_length Pager::file_length (bytes)
\*   crc_warned  the pages for which get_page has printed a CRC32 mismatch
\*               warning
\*   unpinned_use  history: an operation has used the frame of a page, held
\*               across the fetch of another page, while its pin count was zero
\*   unfit_insert  history: the tree has called LeafNode::insert on a leaf
\*               without room for the record
\*   fault       "none", or the first way the run left defined behaviour:
\*               "uaf" (a frame used after its eviction), "oob" (an access
\*               outside a frame or buffer), "hang" (get_page's eviction loop
\*               cannot make room), "no_child" (find_child_index found nothing
\*               and its UINT32_MAX is used as an index), "bad_magic" (exit(1)),
\*               "range" (a 32-bit value wraps below zero)
\* ------------------------------------------------------------------------
Ok(s) == s.fault = "none"
\* v with its elements computed (TLC otherwise defers function expressions)
Computed(v) == v @@ v
Fail(s, why) == IF Ok(s) THEN [s EXCEPT !.fault = why] ELSE s

Resident(s, n) == n \in DOMAIN s.pool
\* the frame a pointer obtained from get_page(n) points to
Frame(s, n) == IF Resident(s, n) THEN s.pool[n] ELSE ZeroPage
\* a write through such a pointer
SetFrame(s, n, p) ==
    IF ~Ok(s) THEN s
    ELSE IF ~Resident(s, n) THEN Fail(s, "uaf")
    ELSE [s EXCEPT !.pool[n] = Computed(p)]
\* the pointers to the pages in held are about to be dereferenced
Deref(s, held) ==
    IF ~(\A n \in held : Resident(s, n)) THEN Fail(s, "uaf")
    ELSE IF \E n \in held : n \notin DOMAIN s.pin_counts
    THEN [s EXCEPT !.unpinned_use = TRUE]
    ELSE s

SeqRemove(seq, x) == SelectSeq(seq, LAMBDA y : y # x)
FnPut(f, k, v) == Computed([x \in DOMAIN f \cup {k} |-> IF x = k THEN v ELSE f[x]])
FnDel(f, k) == Computed([x \in DOMAIN f \ {k} |-> f[x]])

\* ------------------------------------------------------------------------
\* Pager (src/pager.cpp)
\* ------------------------------------------------------------------------
is_pinned(s, n) == n \in DOMAIN s.pin_counts

pin_page(s, n) ==
    [s EXCEPT !.pin_counts =
        FnPut(s.pin_counts, n, IF n \in DOMAIN s.pin_counts THEN s.pin_counts[n] + 1 ELSE 1)]

unpin_page(s, n) ==
    IF n \notin DOMAIN s.pin_counts THEN s
    ELSE IF s.pin_counts[n] - 1 = 0 THEN [s EXCEPT !.pin_counts = FnDel(s.pin_counts, n)]
    ELSE [s EXCEPT !.pin_counts[n] = s.pin_counts[n] - 1]

\* a write that never reaches the file
FileWrite_lost(file, n, data) == file

\* file_stream.seekp(n * PAGE_SIZE); write(data, PAGE_SIZE)
FileWrite(file, n, data) ==
    Computed([i \in 1 .. Max(Len(file), n + 1) |->
                IF i = n + 1 THEN data ELSE IF i <= Len(file) THEN file[i] ELSE ZeroPage])

\* page_type == NODE_LEAF || page_type == NODE_INTERNAL
IsTreePage(p) == get_type(p) = NODE_LEAF \/ get_type(p) = NODE_INTERNAL

\* stored != computed, computed with the checksum field zeroed (get_page)
crc_mismatch(p) == get_checksum(p) # crc32_compute(set_checksum(p, << 0, 0, 0, 0 >>))

\* the condition under which get_page prints "WARNING: CRC32 mismatch" for
\* the bytes p read for page n
crc_warning(n, p) ==
    /\ n > HEADER_PAGE
    /\ IsTreePage(p)
    /\ get_checksum(p) # << 0, 0, 0, 0 >>
    /\ crc_mismatch(p)

\* a stamp computed over the frame with the old checksum still in its field
flush_stamp_unzeroed(n, data) ==
    IF n > HEADER_PAGE /\ (get_type(data) = NODE_LEAF \/ get_type(data) = NODE_INTERNAL)
    THEN set_checksum(data, crc32_compute(data))
    ELSE data

\* the frame as flush leaves it: tree pages get their CRC32 stamped
flush_stamp(n, data) ==
    IF n > HEADER_PAGE /\ (get_type(data) = NODE_LEAF \/ get_type(data) = NODE_INTERNAL)
    THEN set_checksum(data, crc32_compute(set_checksum(data, << 0, 0, 0, 0 >>)))
    ELSE data

flush(s, page_num) ==
    IF ~Resident(s, page_num) THEN s
    ELSE With(Computed(flush_stamp(page_num, s.pool[page_num])), LAMBDA data :
         [s EXCEPT !.pool[page_num] = data,
                   !.file = FileWrite(s.file, page_num, data),
                   !.file_length = IF (page_num + 1) * PAGE_SIZE > s.file_length
                                   THEN (page_num + 1) * PAGE_SIZE ELSE s.file_length])

\* the walk of evict_lru from the LRU end: index of the victim in lru_order, 0 if none
RECURSIVE evict_candidate(_, _)
evict_candidate(s, i) ==
    IF i = 0 THEN 0
    ELSE IF ~is_pinned(s, s.lru_order[i]) THEN i
    ELSE evict_candidate(s, i - 1)

\* flush(candidate); free(pool[candidate]); pool.erase(candidate)
evict_page(s, candidate) ==
    With(flush([s EXCEPT !.lru_order = SeqRemove(s.lru_order, candidate)], candidate),
         LAMBDA s1 : [s1 EXCEPT !.pool = FnDel(s1.pool, candidate)])

\* evict_lru walking from the MRU end
evict_lru_newest(s) ==
    IF \A i \in 1 .. Len(s.lru_order) : is_pinned(s, s.lru_order[i])
    THEN [s |-> s, evicted |-> FALSE]
    ELSE [s |-> evict_page(s, s.lru_order[CHOOSE i \in 1 .. Len(s.lru_order) :
                                             /\ ~is_pinned(s, s.lru_order[i])
                                             /\ \A j \in 1 .. (i - 1) :
                                                   is_pinned(s, s.lru_order[j])]),
          evicted |-> TRUE]
\* evict_lru: [s, evicted]; evicted is FALSE when every frame is pinned
evict_lru(s) ==
    With(evict_candidate(s, Len(s.lru_order)), LAMBDA i :
    IF i = 0 THEN [s |-> s, evicted |-> FALSE]
    ELSE [s |-> evict_page(s, s.lru_order[i]), evicted |-> TRUE])

\* eviction that starts two frames early, as with a pool of
\* BUFFER_POOL_SIZE - 2 frames
RECURSIVE evict_while_full_early(_)
evict_while_full_early(s) ==
    IF Cardinality(DOMAIN s.pool) < BUFFER_POOL_SIZE - 2 THEN s
    ELSE With(evict_lru(s), LAMBDA r :
         IF r.evicted THEN evict_while_full_early(r.s) ELSE Fail(s, "hang"))

\* while (pool.size() >= BUFFER_POOL_SIZE) evict_lru();
RECURSIVE evict_while_full(_)
evict_while_full(s) ==
    IF Cardinality(DOMAIN s.pool) < BUFFER_POOL_SIZE THEN s
    ELSE With(evict_lru(s), LAMBDA r :
         IF r.evicted THEN evict_while_full(r.s) ELSE Fail(s, "hang"))

file_pages(s) ==
    (s.file_length \div PAGE_SIZE) + (IF s.file_length % PAGE_SIZE # 0 THEN 1 ELSE 0)

\* the page get_page reads from the file: zeroes past the end of the file
file_read(s, page_num) ==
    IF page_num < file_pages(s) /\ page_num < Len(s.file)
    THEN s.file[page_num + 1] ELSE ZeroPage

\* the miss path of get_page, room made
load_page(s, page_num) ==
    IF ~Ok(s) THEN s
    ELSE [s EXCEPT !.pool = FnPut(s.pool, page_num, file_read(s, page_num)),
                   !.lru_order = << page_num >> \o s.lru_order,
                   !.crc_warned =
                       IF page_num < file_pages(s)
                          /\ crc_warning(page_num, file_read(s, page_num))
                       THEN s.crc_warned \cup {page_num} ELSE s.crc_warned]

\* the content of page n as the next get_page(n) returns it
PageOf(s, n) == IF Resident(s, n) THEN s.pool[n] ELSE file_read(s, n)

get_page(s, page_num) ==
    IF ~Ok(s) THEN s
    ELSE IF Resident(s, page_num)
    THEN [s EXCEPT !.lru_order = << page_num >> \o SeqRemove(s.lru_order, page_num)]
    ELSE load_page(evict_while_full(s), page_num)

header_bytes(h) ==
    LE32(h.magic) \o LE32(h.page_size) \o LE32(h.total_pages)
                  \o LE32(h.free_pages) \o LE32(h.first_free_page)

header_parse(p) ==
    [magic |-> U32(p, 0), page_size |-> U32(p, 4), total_pages |-> U32(p, 8),
     free_pages |-> U32(p, 12), first_free_page |-> U32(p, 16)]

\* write_header that fetches page 0 and copies nothing
write_header_skipped(s) == get_page(s, HEADER_PAGE)

write_header(s) ==
    With(get_page(s, HEADER_PAGE), LAMBDA s1 :
    SetFrame(s1, HEADER_PAGE, PutBytes(Frame(s1, HEADER_PAGE), 0, header_bytes(s1.header))))

\* the free-list pop of get_unused_page_num, the reused page fetched
pop_free_page(s, reused) ==
    IF s.header.free_pages = 0 THEN Fail(s, "range")
    ELSE SetFrame([s EXCEPT !.header.first_free_page = U32(Frame(s, reused), HEADER_SIZE),
                            !.header.free_pages = s.header.free_pages - 1],
                  reused, ZeroPage)

\* get_unused_page_num: [s, page]
get_unused_page_num(s) ==
    IF s.header.first_free_page # 0
    THEN [s |-> write_header(pop_free_page(get_page(s, s.header.first_free_page),
                                           s.header.first_free_page)),
          page |-> s.header.first_free_page]
    ELSE [s |-> write_header([s EXCEPT !.header.total_pages = s.header.total_pages + 1]),
          page |-> s.header.total_pages]

\* the free-list push of free_page, the freed page fetched
push_free_page(s, page_num) ==
    With(SetFrame(s, page_num, PutU32(set_type(ZeroPage, NODE_FREE), HEADER_SIZE,
                                      s.header.first_free_page)), LAMBDA s2 :
    IF Ok(s2)
    THEN [s2 EXCEPT !.header.first_free_page = page_num,
                    !.header.free_pages = s2.header.free_pages + 1]
    ELSE s2)

\* free_page without the refusal of pages 0 and 1
free_page_unguarded(s, page_num) ==
    write_header(push_free_page(get_page(s, page_num), page_num))
free_page(s, page_num) ==
    IF page_num <= ROOT_PAGE THEN s
    ELSE write_header(push_free_page(get_page(s, page_num), page_num))

\* the pager before its constructor body runs
Pager_fields(file, file_length) ==
    [header |-> [magic |-> 0, page_size |-> 0, total_pages |-> 0,
                 free_pages |-> 0, first_free_page |-> 0],
     pool |-> << >>, lru_order |-> << >>, pin_counts |-> << >>,
     file |-> file, file_length |-> file_length, fault |-> "none",
     unpinned_use |-> FALSE, crc_warned |-> {}, unfit_insert |-> FALSE]

\* memcpy(&header, get_page(HEADER_PAGE), sizeof(DbHeader)) and the magic check
read_header(s) ==
    With(header_parse(Frame(s, HEADER_PAGE)), LAMBDA h :
    IF h.magic # DB_MAGIC THEN Fail(s, "bad_magic") ELSE [s EXCEPT !.header = h])

\* a constructor that leaves page 0 unpinned
Pager_open_unpinned(file, file_length) ==
    IF file_length = 0
    THEN write_header([Pager_fields(file, file_length) EXCEPT !.header =
             [magic |-> DB_MAGIC, page_size |-> PAGE_SIZE, total_pages |-> 1,
              free_pages |-> 0, first_free_page |-> 0]])
    ELSE read_header(get_page(Pager_fields(file, file_length), HEADER_PAGE))

\* Pager::Pager on the file (file, file_length)
Pager_open(file, file_length) ==
    pin_page(IF file_length = 0
             THEN write_header([Pager_fields(file, file_length) EXCEPT !.header =
                      [magic |-> DB_MAGIC, page_size |-> PAGE_SIZE, total_pages |-> 1,
                       free_pages |-> 0, first_free_page |-> 0]])
             ELSE read_header(get_page(Pager_fields(file, file_length), HEADER_PAGE)),
             HEADER_PAGE)

\* a destructor that releases the frames without flushing them
flush_none(s, pages) == s

\* for (auto& [pg, data] : pool) { flush(pg); free(data); }
RECURSIVE flush_all(_, _)
flush_all(s, pages) ==
    IF pages = {} THEN s
    ELSE With(CHOOSE x \in pages : TRUE, LAMBDA pg :
         flush_all(flush(s, pg), pages \ {pg}))

\* the pool emptied, what is left is the file
drop_pool(s) == [s EXCEPT !.pool = << >>, !.lru_order = << >>]

\* Pager::~Pager
Pager_close(s) ==
    With(write_header(s), LAMBDA s1 : drop_pool(flush_all(s1, DOMAIN s1.pool)))

\* ------------------------------------------------------------------------
\* BloomFilter (src/bloom.cpp): bits points at byte BLOOM_OFFSET of the
\* header frame
\* ------------------------------------------------------------------------
\* (k * c) % BLOOM_BITS for the 32-bit constant c = c_hi * 65536 + c_lo,
\* computed in 64 bits by the source (no wrap)
MulModBits(k, c_hi, c_lo) ==
    LET c_mod == ((c_hi % BLOOM_BITS) * (65536 % BLOOM_BITS) + c_lo) % BLOOM_BITS
    IN  ((k % BLOOM_BITS) * c_mod) % BLOOM_BITS

\* k ^ (k >> 16)
FoldHigh(k) ==
    LET x == Xor32(LE32(k), LE32(k \div 65536))
    IN  x[1] + 256 * x[2] + 65536 * x[3] + 16777216 * x[4]

hash1(k) == MulModBits(k, 40503, 31153)
hash2(k) == MulModBits(k, 34283, 51819)
hash3(k) == MulModBits(FoldHigh(k), 52382, 11601)

Pow2(n) == IF n = 0 THEN 1 ELSE IF n = 1 THEN 2 ELSE IF n = 2 THEN 4 ELSE IF n = 3 THEN 8
           ELSE IF n = 4 THEN 16 ELSE IF n = 5 THEN 32 ELSE IF n = 6 THEN 64 ELSE 128

get_bit(p0, pos) == (p0[BLOOM_OFFSET + (pos \div 8)] \div Pow2(pos % 8)) % 2 = 1
set_bit(p0, pos) ==
    IF get_bit(p0, pos) THEN p0
    ELSE [p0 EXCEPT ![BLOOM_OFFSET + (pos \div 8)] = @ + Pow2(pos % 8)]

bloom_add(p0, key) == set_bit(set_bit(set_bit(p0, hash1(key)), hash2(key)), hash3(key))
possibly_contains(p0, key) ==
    get_bit(p0, hash1(key)) /\ get_bit(p0, hash2(key)) /\ get_bit(p0, hash3(key))
bloom_clear(p0) == [i \in Offsets |-> IF i >= BLOOM_OFFSET THEN 0 ELSE p0[i]]

\* ------------------------------------------------------------------------
\* BTree (src/btree.cpp)
\* ------------------------------------------------------------------------
\* BTree::find: [s, page_num, path]
RECURSIVE find_loop(_, _, _, _)
find_loop(s, key, curr_page, path) ==
    IF ~Ok(s) THEN [s |-> s, page_num |-> curr_page, path |-> path]
    ELSE IF get_type(Frame(s, curr_page)) # NODE_INTERNAL
    THEN [s |-> s, page_num |-> curr_page, path |-> path]
    ELSE IF ~InternalReadable(Frame(s, curr_page))
    THEN [s |-> Fail(s, "oob"), page_num |-> curr_page, path |-> path]
    ELSE IF \E i \in 1 .. Len(path) : path[i] = curr_page
    THEN [s |-> Fail(s, "hang"), page_num |-> curr_page, path |-> path]
    ELSE With(find_child(Frame(s, curr_page), key), LAMBDA child :
         find_loop(get_page(s, child), key, child, Append(path, curr_page)))

find(s, key) == find_loop(get_page(s, ROOT_PAGE), key, ROOT_PAGE, << >>)

\* find_child_index: the index, or -1 for the UINT32_MAX of "not found"
RECURSIVE find_child_index_loop(_, _, _, _)
find_child_index_loop(parent, child_page, i, nk) ==
    IF i >= nk THEN (IF get_right_child(parent) = child_page THEN nk ELSE -1)
    ELSE IF cell_child(parent, i) = child_page THEN i
    ELSE find_child_index_loop(parent, child_page, i + 1, nk)

find_child_index(parent, child_page) ==
    find_child_index_loop(parent, child_page, 0, get_num_keys(parent))

\* the children and keys arrays of split_internal
split_children(old, N, child_index, new_child_page) ==
    [i \in 0 .. (N + 1) |->
        IF i <= child_index THEN get_child(old, i)
        ELSE IF i = child_index + 1 THEN new_child_page
        ELSE get_child(old, i - 1)]

split_keys(old, N, child_index, new_key) ==
    [i \in 0 .. N |->
        IF i < child_index THEN InternalNode_get_key(old, i)
        ELSE IF i = child_index THEN new_key
        ELSE InternalNode_get_key(old, i - 1)]

\* for (i = 0; i < count; i++) { cell(i).child = children[from + i]; key(i) = keys[from + i]; }
RECURSIVE write_cells(_, _, _, _, _, _)
write_cells(p, children, keys, from, i, count) ==
    IF i >= count THEN p
    ELSE write_cells(
            InternalNode_set_key(set_cell_child(p, i, children[from + i]), i, keys[from + i]),
            children, keys, from, i + 1, count)

\* split_internal: the old node keeps the cells below mid
split_left_half(old, children, keys, mid) ==
    set_num_keys(set_right_child(write_cells(old, children, keys, 0, 0, mid), children[mid]),
                 mid)

\* the new node taking the cells from mid on, the key at mid with them
split_right_half_from_mid(new, children, keys, mid, total_keys) ==
    set_num_keys(
        set_right_child(
            write_cells(InternalNode_initialize(new), children, keys, mid, 0,
                        total_keys - mid),
            children[total_keys]),
        total_keys - mid)
\* split_internal: the new node takes the cells above mid
split_right_half(new, children, keys, mid, total_keys) ==
    set_num_keys(
        set_right_child(
            write_cells(InternalNode_initialize(new), children, keys, mid + 1, 0,
                        total_keys - mid - 1),
            children[total_keys]),
        total_keys - mid - 1)

\* root growth that hangs the old root's first child, one level too low,
\* under the new root in place of the copy of the old root
grow_root_shallow(p, key, left_page, right_page) ==
    set_right_child(
        InternalNode_set_key(
            set_child(set_num_keys(set_root(InternalNode_initialize(p), TRUE), 1), 0,
                      get_child(p, 0)),
            0, key),
        right_page)

\* root growth of an internal root: page 1 has just been copied to left_page
grow_root(p, key, left_page, right_page) ==
    set_right_child(
        InternalNode_set_key(
            set_child(set_num_keys(set_root(InternalNode_initialize(p), TRUE), 1), 0, left_page),
            0, key),
        right_page)

\* split_internal of the root: the old root moves to a new page, page
\* internal_page becomes the root over it and new_internal_page
split_internal_root(s, internal_page, new_internal_page, push_up_key) ==
    With(get_unused_page_num(s), LAMBDA b :
    With(get_page(get_page(b.s, b.page), internal_page), LAMBDA s5 :
    With(get_page(SetFrame(Deref(s5, {b.page}), b.page, Frame(s5, internal_page)), b.page),
         LAMBDA s7 :
    With(get_page(SetFrame(s7, b.page, set_root(Frame(s7, b.page), FALSE)), internal_page),
         LAMBDA s9 :
    SetFrame(s9, internal_page,
             grow_root(Frame(s9, internal_page), push_up_key, b.page, new_internal_page))))))

RECURSIVE split_internal(_, _, _, _, _, _)

\* split_internal away from the root: push_up_key and the new node go into
\* the parent (fetched in s), which is split in turn when it is full
split_internal_up(s, parent_page, internal_page, push_up_key, new_internal_page, path) ==
    IF ~Ok(s) THEN s
    ELSE IF ~InternalReadable(Frame(s, parent_page)) THEN Fail(s, "oob")
    ELSE With(find_child_index(Frame(s, parent_page), internal_page), LAMBDA pidx :
         IF pidx = -1 THEN Fail(s, "no_child")
         ELSE IF get_num_keys(Frame(s, parent_page)) >= INTERNAL_MAX_CELLS
         THEN split_internal(s, parent_page, pidx, push_up_key, new_internal_page,
                             SubSeq(path, 1, Len(path) - 1))
         ELSE IF ~CellsInBounds(get_num_keys(Frame(s, parent_page)) + 1) THEN Fail(s, "oob")
         ELSE SetFrame(s, parent_page,
                       insert_child(Frame(s, parent_page), pidx, push_up_key,
                                    new_internal_page)))

\* split_internal on the gathered children and keys (internal_page fetched in s)
split_internal_halves(s, internal_page, children, keys, total_keys, path) ==
    With(get_unused_page_num(
             SetFrame(s, internal_page,
                      split_left_half(Frame(s, internal_page), children, keys,
                                      total_keys \div 2))), LAMBDA a :
    With(get_page(a.s, a.page), LAMBDA s3 :
    With(Deref(SetFrame(s3, a.page,
                        split_right_half(Frame(s3, a.page), children, keys,
                                         total_keys \div 2, total_keys)),
               {internal_page}), LAMBDA s4 :
    IF ~Ok(s4) THEN s4
    ELSE IF is_root(Frame(s4, internal_page))
    THEN split_internal_root(s4, internal_page, a.page, keys[total_keys \div 2])
    ELSE IF path = << >> THEN Fail(s4, "oob")
    ELSE split_internal_up(get_page(s4, path[Len(path)]), path[Len(path)], internal_page,
                           keys[total_keys \div 2], a.page, path))))

split_internal(s, internal_page, child_index, new_key, new_child_page, path) ==
    With(get_page(s, internal_page), LAMBDA s1 :
    IF ~Ok(s1) THEN s1
    ELSE IF \/ ~InternalReadable(Frame(s1, internal_page))
            \/ child_index > get_num_keys(Frame(s1, internal_page))
    THEN Fail(s1, "oob")
    ELSE LET old == Frame(s1, internal_page)
             N == get_num_keys(old)
         IN  split_internal_halves(s1, internal_page,
                                   split_children(old, N, child_index, new_child_page),
                                   split_keys(old, N, child_index, new_key),
                                   N + 1, path))

\* split_leaf step 1: the rows of the leaf with new_row merged in by key
RECURSIVE all_rows_loop(_, _, _, _, _, _)
all_rows_loop(old, new_key, new_row, i, inserted, acc) ==
    IF i >= get_num_cells(old) \/ Len(acc) < i
    THEN (IF inserted THEN acc ELSE Append(acc, new_row))
    ELSE IF ~inserted /\ new_key < LeafNode_get_key(old, i)
    THEN all_rows_loop(old, new_key, new_row, i + 1, TRUE,
                       Append(Append(acc, new_row), LeafNode_get_row(old, i)))
    ELSE all_rows_loop(old, new_key, new_row, i + 1, inserted,
                       Append(acc, LeafNode_get_row(old, i)))

\* split_leaf step 2: the loop that looks for the first row at which the
\* running size exceeds half the usable space; 0 when it never breaks
RECURSIVE split_point_loop(_, _, _)
split_point_loop(all_rows, i, running) ==
    IF i >= Len(all_rows) THEN 0
    ELSE With(running + serialized_row_size(all_rows[i + 1]) + SLOT_SIZE, LAMBDA r :
         IF r > LEAF_USABLE_SPACE \div 2 THEN (IF i > 0 THEN i ELSE 1)
         ELSE split_point_loop(all_rows, i + 1, r))

split_point_of(all_rows) ==
    With(split_point_loop(all_rows, 0, 0), LAMBDA sp :
    IF sp = 0 THEN Len(all_rows) \div 2 ELSE sp)

\* the leaf p has no room for row, or holds records over its slot directory
\* once row is in
UnfitInsert(p, row) ==
    \/ ~can_fit(p, serialized_row_size(row))
    \/ ~LeafInsertInBounds(p, row)
    \/ get_data_end(LeafNode_insert(p, row.id, row)) <
           LEAF_HEADER_SIZE + SLOT_SIZE * get_num_cells(LeafNode_insert(p, row.id, row))

\* node.insert(row.id, row) through the pointer to page
leaf_insert(s, page, row) ==
    IF ~Ok(s) THEN s
    ELSE IF ~Resident(s, page) THEN Fail(s, "uaf")
    ELSE IF ~LeafInsertInBounds(Frame(s, page), row)
    THEN Fail([s EXCEPT !.unfit_insert = TRUE], "oob")
    ELSE SetFrame([s EXCEPT !.unfit_insert = @ \/ UnfitInsert(Frame(s, page), row)],
                  page, LeafNode_insert(Frame(s, page), row.id, row))

\* for (i = from; i < to; i++) node.insert(all_rows[i].id, all_rows[i]);
RECURSIVE insert_rows(_, _, _, _, _)
insert_rows(s, page, all_rows, from, to) ==
    IF from >= to \/ ~Ok(s) THEN s
    ELSE insert_rows(leaf_insert(s, page, all_rows[from + 1]), page, all_rows, from + 1, to)

\* root growth of a leaf root: page 1 has just been copied to left_copy_page
leaf_root_to_internal(p, separator, left_copy_page, new_page_num) ==
    InternalNode_set_key(
        set_child(
            set_right_child(
                set_num_keys(set_root(InternalNode_initialize(p), TRUE), 1),
                new_page_num),
            0, left_copy_page),
        0, separator)

\* split_leaf steps 3 to 5: the old leaf is reset, the rows go to the two
\* leaves, and the chain is relinked old -> new -> old_next
distribute_rows(s, page_num, new_page_num, all_rows, split_point) ==
    With(insert_rows(
             insert_rows(
                 SetFrame(s, page_num,
                          set_root(LeafNode_initialize(Frame(s, page_num)),
                                   is_root(Frame(s, page_num)))),
                 page_num, all_rows, 0, split_point),
             new_page_num, all_rows, split_point, Len(all_rows)), LAMBDA s7 :
    With(SetFrame(s7, page_num, set_next_leaf(Frame(s7, page_num), new_page_num)), LAMBDA s8 :
    SetFrame(s8, new_page_num,
             set_next_leaf(Frame(s8, new_page_num), get_next_leaf(Frame(s, page_num))))))

\* split_leaf of a leaf root whose left copy keeps the root flag
split_leaf_root_flagged(s, page_num, new_page_num, separator) ==
    With(get_unused_page_num(s), LAMBDA b :
    With(Deref(get_page(b.s, b.page), {page_num}), LAMBDA t1 :
    With(SetFrame(t1, b.page, Frame(t1, page_num)), LAMBDA t2 :
    SetFrame(Deref(t2, {page_num}), page_num,
             leaf_root_to_internal(Frame(t2, page_num), separator, b.page, new_page_num)))))

\* split_leaf of a leaf root: the left half moves to a new page and page 1
\* becomes an internal root over the two leaves
split_leaf_root(s, page_num, new_page_num, separator) ==
    With(get_unused_page_num(s), LAMBDA b :
    With(Deref(get_page(b.s, b.page), {page_num}), LAMBDA t1 :
    With(SetFrame(t1, b.page, Frame(t1, page_num)), LAMBDA t2 :
    With(SetFrame(t2, b.page, set_root(Frame(t2, b.page), FALSE)), LAMBDA t3 :
    SetFrame(Deref(t3, {page_num}), page_num,
             leaf_root_to_internal(Frame(t3, page_num), separator, b.page, new_page_num))))))

\* split_leaf away from the root with the full-parent check off by one: a
\* parent holding INTERNAL_MAX_CELLS keys takes one more
split_leaf_up_overfull(s, parent_page, page_num, separator, new_page_num, path) ==
    IF ~Ok(s) THEN s
    ELSE IF ~InternalReadable(Frame(s, parent_page)) THEN Fail(s, "oob")
    ELSE With(find_child_index(Frame(s, parent_page), page_num), LAMBDA child_index :
         IF child_index = -1 THEN Fail(s, "no_child")
         ELSE IF get_num_keys(Frame(s, parent_page)) > INTERNAL_MAX_CELLS
         THEN split_internal(s, parent_page, child_index, separator, new_page_num,
                             SubSeq(path, 1, Len(path) - 1))
         ELSE IF ~CellsInBounds(get_num_keys(Frame(s, parent_page)) + 1) THEN Fail(s, "oob")
         ELSE SetFrame(s, parent_page,
                       insert_child(Frame(s, parent_page), child_index, separator,
                                    new_page_num)))

\* split_leaf away from the root: the separator and the new leaf go into the
\* parent (fetched in s), which is split when it is full
split_leaf_up(s, parent_page, page_num, separator, new_page_num, path) ==
    IF ~Ok(s) THEN s
    ELSE IF ~InternalReadable(Frame(s, parent_page)) THEN Fail(s, "oob")
    ELSE With(find_child_index(Frame(s, parent_page), page_num), LAMBDA child_index :
         IF child_index = -1 THEN Fail(s, "no_child")
         ELSE IF get_num_keys(Frame(s, parent_page)) >= INTERNAL_MAX_CELLS
         THEN split_internal(s, parent_page, child_index, separator, new_page_num,
                             SubSeq(path, 1, Len(path) - 1))
         ELSE IF ~CellsInBounds(get_num_keys(Frame(s, parent_page)) + 1) THEN Fail(s, "oob")
         ELSE SetFrame(s, parent_page,
                       insert_child(Frame(s, parent_page), child_index, separator,
                                    new_page_num)))

\* split_leaf on the merged rows (page_num fetched in s)
split_leaf_rows(s, page_num, path, all_rows) ==
    With(get_unused_page_num(s), LAMBDA a :
    With(get_page(a.s, a.page), LAMBDA s2 :
    With(Deref(SetFrame(s2, a.page, LeafNode_initialize(Frame(s2, a.page))), {page_num}),
         LAMBDA s4 :
    With(distribute_rows(s4, page_num, a.page, all_rows, split_point_of(all_rows)),
         LAMBDA s9 :
    IF ~Ok(s9) THEN s9
    ELSE IF is_root(Frame(s4, page_num))
    THEN split_leaf_root(s9, page_num, a.page, LeafNode_get_key(Frame(s9, a.page), 0))
    ELSE IF path = << >> THEN Fail(s9, "oob")
    ELSE split_leaf_up(get_page(s9, path[Len(path)]), path[Len(path)], page_num,
                       LeafNode_get_key(Frame(s9, a.page), 0), a.page, path)))))

split_leaf(s, page_num, path, new_key, new_row) ==
    With(get_page(s, page_num), LAMBDA s1 :
    IF ~Ok(s1) THEN s1
    ELSE IF ~LeafReadable(Frame(s1, page_num)) THEN Fail(s1, "oob")
    ELSE split_leaf_rows(s1, page_num, path,
                         all_rows_loop(Frame(s1, page_num), new_key, new_row, 0, FALSE,
                                       << >>)))

\* BTree::insert past bloom.add: the leaf is split when the row does not fit
insert_new(s, c, id, row) ==
    With(IF ~can_fit(Frame(s, c.page_num), serialized_row_size(row))
         THEN split_leaf(s, c.page_num, c.path, id, row)
         ELSE leaf_insert(s, c.page_num, row), LAMBDA s3 :
    [s |-> s3, status |-> IF Ok(s3) THEN "ok" ELSE "fault"])

\* BTree::insert: [s, status]; status is "dup" when the key is rejected
BTree_insert(s, id, row) ==
    With(find(s, id), LAMBDA c :
    With(get_page(c.s, c.page_num), LAMBDA s1 :
    IF ~Ok(s1) THEN [s |-> s1, status |-> "fault"]
    ELSE IF ~LeafReadable(Frame(s1, c.page_num))
    THEN [s |-> Fail(s1, "oob"), status |-> "fault"]
    ELSE IF leaf_search(Frame(s1, c.page_num), id, 0, get_num_cells(Frame(s1, c.page_num))) # -1
    THEN [s |-> s1, status |-> "dup"]
    ELSE insert_new(SetFrame(s1, HEADER_PAGE, bloom_add(Frame(s1, HEADER_PAGE), id)),
                    c, id, row)))

\* slot i and the record it points to lie inside the frame
SlotReadable(p, i) ==
    /\ LEAF_HEADER_SIZE + (i + 1) * SLOT_SIZE <= PAGE_SIZE
    /\ RecordInBounds(p, slot_offset(p, i))

\* for (i = 0; i < rn; i++) { Row row = right.get_row(i); left.insert(row.id, row); }
RECURSIVE merge_rows(_, _, _, _, _)
merge_rows(s, left_page, right_page, i, rn) ==
    IF i >= rn \/ ~Ok(s) THEN s
    ELSE IF ~SlotReadable(Frame(s, right_page), i) THEN Fail(s, "oob")
    ELSE merge_rows(leaf_insert(s, left_page, LeafNode_get_row(Frame(s, right_page), i)),
                    left_page, right_page, i + 1, rn)

\* root collapse: the only child is copied over the root page and freed
collapse_root(s, parent_page, only_child) ==
    With(Deref(get_page(get_page(s, parent_page), only_child), {parent_page, only_child}),
         LAMBDA s1 :
    With(get_page(SetFrame(s1, parent_page, Frame(s1, only_child)), parent_page), LAMBDA s3 :
    free_page(SetFrame(s3, parent_page, set_root(Frame(s3, parent_page), TRUE)), only_child)))

\* for (int32_t i = cn - 1; i >= 0; i--) memcpy(cell(i + 1), cell(i))
RECURSIVE shift_cells_right(_, _)
shift_cells_right(p, i) ==
    IF i < 0 THEN p ELSE shift_cells_right(copy_cell(p, i + 1, i), i - 1)

\* for (i = 0; i < rn - 1; i++) memcpy(cell(i), cell(i + 1))
RECURSIVE shift_cells_left(_, _, _)
shift_cells_left(p, i, rn) ==
    IF i >= rn - 1 THEN p ELSE shift_cells_left(copy_cell(p, i, i + 1), i + 1, rn)

\* for (i = 0; i < rn; i++) memcpy(left.get_cell(ln + 1 + i), right.get_cell(i))
RECURSIVE copy_cells_over(_, _, _, _, _, _)
copy_cells_over(s, left_page, right_page, ln, i, rn) ==
    IF i >= rn \/ ~Ok(s) THEN s
    ELSE copy_cells_over(
            SetFrame(s, left_page,
                     PutBytes(Frame(s, left_page), get_cell(ln + 1 + i),
                              GetBytes(Frame(s, right_page), get_cell(i), INTERNAL_CELL_SIZE))),
            left_page, right_page, ln, i + 1, rn)

\* the left sibling gives up its right child: its last cell's child takes the place
drop_last_child(left) ==
    set_num_keys(set_right_child(left, cell_child(left, get_num_keys(left) - 1)),
                 get_num_keys(left) - 1)

\* the current node takes (borrowed_child, parent_key) as its first cell
take_first_cell(cur, borrowed_child, parent_key) ==
    set_num_keys(
        InternalNode_set_key(
            set_cell_child(shift_cells_right(cur, get_num_keys(cur) - 1), 0, borrowed_child),
            0, parent_key),
        get_num_keys(cur) + 1)

\* rebalance_internal, borrow from the left sibling (all three frames resident)
internal_borrow_left(s, page_num, left_page, parent_page, child_index) ==
    IF ~InternalReadable(Frame(s, left_page)) THEN Fail(s, "oob")
    ELSE With(SetFrame(s, left_page, drop_last_child(Frame(s, left_page))), LAMBDA s1 :
         IF ~CellsInBounds(get_num_keys(Frame(s1, page_num)) + 1) THEN Fail(s1, "oob")
         ELSE With(SetFrame(s1, page_num,
                            take_first_cell(Frame(s1, page_num),
                                            get_right_child(Frame(s, left_page)),
                                            InternalNode_get_key(Frame(s, parent_page),
                                                                 child_index - 1))),
                   LAMBDA s2 :
              SetFrame(s2, parent_page,
                       InternalNode_set_key(
                           Frame(s2, parent_page), child_index - 1,
                           InternalNode_get_key(Frame(s, left_page),
                                                get_num_keys(Frame(s, left_page)) - 1)))))

\* the right sibling gives up its first cell
drop_first_cell(right) ==
    set_num_keys(shift_cells_left(right, 0, get_num_keys(right)), get_num_keys(right) - 1)

\* the current node keeps its right child in a new last cell under parent_key
\* and takes borrowed_child as its right child
take_last_child(cur, borrowed_child, parent_key) ==
    set_num_keys(
        set_right_child(
            InternalNode_set_key(set_cell_child(cur, get_num_keys(cur), get_right_child(cur)),
                                 get_num_keys(cur), parent_key),
            borrowed_child),
        get_num_keys(cur) + 1)

\* rebalance_internal, borrow from the right sibling
internal_borrow_right(s, page_num, right_page, parent_page, child_index) ==
    IF ~InternalReadable(Frame(s, right_page)) THEN Fail(s, "oob")
    ELSE With(SetFrame(s, right_page, drop_first_cell(Frame(s, right_page))), LAMBDA s1 :
         IF ~CellsInBounds(get_num_keys(Frame(s1, page_num)) + 1) THEN Fail(s1, "oob")
         ELSE With(SetFrame(s1, page_num,
                            take_last_child(Frame(s1, page_num),
                                            cell_child(Frame(s, right_page), 0),
                                            InternalNode_get_key(Frame(s, parent_page),
                                                                 child_index))),
                   LAMBDA s2 :
              SetFrame(s2, parent_page,
                       InternalNode_set_key(Frame(s2, parent_page), child_index,
                                            InternalNode_get_key(Frame(s, right_page), 0)))))

\* merge_internals: the separator and the right node's cells are appended to
\* the left node (ln and rn are the key counts before)
append_cells(s, left_page, right_page, separator, ln, rn) ==
    With(copy_cells_over(
             SetFrame(s, left_page,
                      InternalNode_set_key(
                          set_cell_child(Frame(s, left_page), ln,
                                         get_right_child(Frame(s, left_page))),
                          ln, separator)),
             left_page, right_page, ln, 0, rn), LAMBDA s3 :
    SetFrame(s3, left_page,
             set_num_keys(set_right_child(Frame(s3, left_page),
                                          get_right_child(Frame(s3, right_page))),
                          ln + 1 + rn)))

\* merge_internals up to and including free_page(right_page)
merge_internal_cells(s, left_page, right_page, parent_page, sep_idx) ==
    With(Deref(get_page(get_page(get_page(s, left_page), right_page), parent_page),
               {left_page, right_page, parent_page}), LAMBDA s1 :
    IF ~Ok(s1) THEN s1
    ELSE LET ln == get_num_keys(Frame(s1, left_page))
             rn == get_num_keys(Frame(s1, right_page))
         IN  IF ~CellsInBounds(sep_idx + 1) \/ ~CellsInBounds(ln + 1 + rn) \/ ~CellsInBounds(rn)
             THEN Fail(s1, "oob")
             ELSE free_page(append_cells(s1, left_page, right_page,
                                         InternalNode_get_key(Frame(s1, parent_page), sep_idx),
                                         ln, rn),
                            right_page))

RECURSIVE rebalance_internal(_, _, _)

\* after_remove_key without the step up: an internal node left below
\* INTERNAL_MIN_KEYS is not rebalanced
after_remove_key_stop(s, parent_page, path) ==
    IF is_root(Frame(s, parent_page)) /\ get_num_keys(Frame(s, parent_page)) = 0
    THEN collapse_root(s, parent_page, get_right_child(Frame(s, parent_page)))
    ELSE s

\* after the separator is dropped from the parent (written in s): collapse
\* the root, go up, or stop
after_remove_key(s, parent_page, path) ==
    IF is_root(Frame(s, parent_page)) /\ get_num_keys(Frame(s, parent_page)) = 0
    THEN collapse_root(s, parent_page, get_right_child(Frame(s, parent_page)))
    ELSE IF /\ ~is_root(Frame(s, parent_page))
            /\ get_num_keys(Frame(s, parent_page)) < INTERNAL_MIN_KEYS
    THEN IF path = << >> THEN Fail(s, "oob")
         ELSE rebalance_internal(s, parent_page, SubSeq(path, 1, Len(path) - 1))
    ELSE s

\* the part of merge_leaves and merge_internals after the right page is freed:
\* drop the separator from the parent, then collapse the root or go up
after_merge(s, parent_page, sep_idx, path) ==
    With(get_page(s, parent_page), LAMBDA s1 :
    IF ~Ok(s1) THEN s1
    ELSE IF \/ ~InternalReadable(Frame(s1, parent_page))
            \/ sep_idx >= get_num_keys(Frame(s1, parent_page))
    THEN Fail(s1, "oob")
    ELSE after_remove_key(SetFrame(s1, parent_page,
                                   remove_key(Frame(s1, parent_page), sep_idx)),
                          parent_page, path))

merge_internals(s, left_page, right_page, parent_page, sep_idx, path) ==
    after_merge(merge_internal_cells(s, left_page, right_page, parent_page, sep_idx),
                parent_page, sep_idx, path)

\* rebalance_internal with the right sibling considered (sR has it fetched
\* when there is one)
internal_right_or_merge(sR, page_num, parent_page, child_index, path) ==
    IF ~Ok(sR) THEN sR
    ELSE IF /\ child_index < get_num_keys(Frame(sR, parent_page))
            /\ get_num_keys(Frame(sR, get_child(Frame(sR, parent_page), child_index + 1)))
                   > INTERNAL_MIN_KEYS
    THEN internal_borrow_right(sR, page_num,
                               get_child(Frame(sR, parent_page), child_index + 1),
                               parent_page, child_index)
    ELSE IF child_index > 0
    THEN merge_internals(sR, get_child(Frame(sR, parent_page), child_index - 1), page_num,
                         parent_page, child_index - 1, path)
    ELSE IF ~CellsInBounds(child_index + 2) THEN Fail(sR, "oob")
    ELSE merge_internals(sR, page_num, get_child(Frame(sR, parent_page), child_index + 1),
                         parent_page, child_index, path)

\* rebalance_internal with the left sibling considered (sL has it fetched
\* when there is one)
internal_left_or_right(sL, page_num, parent_page, child_index, path) ==
    IF ~Ok(sL) THEN sL
    ELSE IF /\ child_index > 0
            /\ get_num_keys(Frame(sL, get_child(Frame(sL, parent_page), child_index - 1)))
                   > INTERNAL_MIN_KEYS
    THEN internal_borrow_left(sL, page_num,
                              get_child(Frame(sL, parent_page), child_index - 1),
                              parent_page, child_index)
    ELSE internal_right_or_merge(
             IF child_index < get_num_keys(Frame(sL, parent_page))
             THEN Deref(get_page(sL, get_child(Frame(sL, parent_page), child_index + 1)),
                        {parent_page, page_num,
                         get_child(Frame(sL, parent_page), child_index + 1)})
             ELSE sL,
             page_num, parent_page, child_index, path)

\* rebalance_internal with the parent and the node fetched in s
rebalance_internal_at(s, page_num, parent_page, child_index, path) ==
    IF child_index = -1 THEN Fail(s, "no_child")
    ELSE internal_left_or_right(
             IF child_index > 0
             THEN Deref(get_page(s, get_child(Frame(s, parent_page), child_index - 1)),
                        {parent_page, page_num,
                         get_child(Frame(s, parent_page), child_index - 1)})
             ELSE s,
             page_num, parent_page, child_index, path)

rebalance_internal(s, page_num, path) ==
    IF path = << >> \/ ~Ok(s) THEN s
    ELSE With(Deref(get_page(get_page(s, path[Len(path)]), page_num),
                    {path[Len(path)], page_num}), LAMBDA s1 :
         IF ~Ok(s1) THEN s1
         ELSE IF ~InternalReadable(Frame(s1, path[Len(path)])) THEN Fail(s1, "oob")
         ELSE rebalance_internal_at(s1, page_num, path[Len(path)],
                                    find_child_index(Frame(s1, path[Len(path)]), page_num),
                                    path))

merge_leaves(s, left_page, right_page, parent_page, sep_idx, path) ==
    With(Deref(get_page(get_page(s, left_page), right_page), {left_page, right_page}),
         LAMBDA s1 :
    With(merge_rows(s1, left_page, right_page, 0, get_num_cells(Frame(s1, right_page))),
         LAMBDA s2 :
    With(SetFrame(s2, left_page,
                  set_next_leaf(Frame(s2, left_page), get_next_leaf(Frame(s2, right_page)))),
         LAMBDA s3 :
    IF ~Ok(s3) THEN s3
    ELSE after_merge(free_page(s3, right_page), parent_page, sep_idx, path))))

\* rebalance_leaf, borrow the last row of the left sibling
leaf_borrow_left(s, page_num, left_page, parent_page, child_index) ==
    IF ~LeafReadable(Frame(s, left_page)) THEN Fail(s, "oob")
    ELSE With(leaf_insert(s, page_num,
                          LeafNode_get_row(Frame(s, left_page),
                                           get_num_cells(Frame(s, left_page)) - 1)),
              LAMBDA s1 :
         With(SetFrame(s1, left_page,
                       remove_at(Frame(s1, left_page), get_num_cells(Frame(s, left_page)) - 1)),
              LAMBDA s2 :
         IF ~Ok(s2) THEN s2
         ELSE SetFrame(s2, parent_page,
                       InternalNode_set_key(Frame(s2, parent_page), child_index - 1,
                                            LeafNode_get_key(Frame(s2, page_num), 0)))))

\* rebalance_leaf, borrow the first row of the right sibling
leaf_borrow_right(s, page_num, right_page, parent_page, child_index) ==
    IF ~LeafReadable(Frame(s, right_page)) THEN Fail(s, "oob")
    ELSE With(leaf_insert(s, page_num, LeafNode_get_row(Frame(s, right_page), 0)),
              LAMBDA s1 :
         With(SetFrame(s1, right_page, remove_at(Frame(s1, right_page), 0)), LAMBDA s2 :
         IF ~Ok(s2) THEN s2
         ELSE SetFrame(s2, parent_page,
                       InternalNode_set_key(Frame(s2, parent_page), child_index,
                                            LeafNode_get_key(Frame(s2, right_page), 0)))))

can_lend(sib) == ~leaf_underflow(sib) /\ get_num_cells(sib) > LEAF_MIN_CELLS

\* rebalance_leaf with the right sibling considered (sR has it fetched when
\* there is one)
leaf_right_or_merge(sR, page_num, parent_page, child_index, path) ==
    IF ~Ok(sR) THEN sR
    ELSE IF /\ child_index < get_num_keys(Frame(sR, parent_page))
            /\ can_lend(Frame(sR, get_child(Frame(sR, parent_page), child_index + 1)))
    THEN leaf_borrow_right(sR, page_num, get_child(Frame(sR, parent_page), child_index + 1),
                           parent_page, child_index)
    ELSE IF child_index > 0
    THEN merge_leaves(sR, get_child(Frame(sR, parent_page), child_index - 1), page_num,
                      parent_page, child_index - 1, path)
    ELSE IF ~CellsInBounds(child_index + 2) THEN Fail(sR, "oob")
    ELSE merge_leaves(sR, page_num, get_child(Frame(sR, parent_page), child_index + 1),
                      parent_page, child_index, path)

\* rebalance_leaf with the left sibling considered (sL has it fetched when
\* there is one)
leaf_left_or_right(sL, page_num, parent_page, child_index, path) ==
    IF ~Ok(sL) THEN sL
    ELSE IF /\ child_index > 0
            /\ can_lend(Frame(sL, get_child(Frame(sL, parent_page), child_index - 1)))
    THEN leaf_borrow_left(sL, page_num, get_child(Frame(sL, parent_page), child_index - 1),
                          parent_page, child_index)
    ELSE leaf_right_or_merge(
             IF child_index < get_num_keys(Frame(sL, parent_page))
             THEN Deref(get_page(sL, get_child(Frame(sL, parent_page), child_index + 1)),
                        {parent_page, page_num,
                         get_child(Frame(sL, parent_page), child_index + 1)})
             ELSE sL,
             page_num, parent_page, child_index, path)

\* rebalance_leaf with the parent and the leaf fetched in s
rebalance_leaf_at(s, page_num, parent_page, child_index, path) ==
    IF child_index = -1 THEN Fail(s, "no_child")
    ELSE leaf_left_or_right(
             IF child_index > 0
             THEN Deref(get_page(s, get_child(Frame(s, parent_page), child_index - 1)),
                        {parent_page, page_num,
                         get_child(Frame(s, parent_page), child_index - 1)})
             ELSE s,
             page_num, parent_page, child_index, path)

rebalance_leaf(s, page_num, path) ==
    IF path = << >> THEN Fail(s, "oob")
    ELSE With(Deref(get_page(get_page(s, path[Len(path)]), page_num),
                    {path[Len(path)], page_num}), LAMBDA s1 :
         IF ~Ok(s1) THEN s1
         ELSE IF ~InternalReadable(Frame(s1, path[Len(path)])) THEN Fail(s1, "oob")
         ELSE rebalance_leaf_at(s1, page_num, path[Len(path)],
                                find_child_index(Frame(s1, path[Len(path)]), page_num), path))

\* a remove that also wipes the Bloom bits once the key is gone
after_leaf_remove_clearing(s, page_num, path) ==
    With(SetFrame(s, HEADER_PAGE, bloom_clear(Frame(s, HEADER_PAGE))), LAMBDA s0 :
    IF is_root(Frame(s0, page_num)) \/ ~leaf_underflow(Frame(s0, page_num)) THEN s0
    ELSE rebalance_leaf(s0, page_num, path))

\* BTree::remove once the key is gone from the leaf (written in s)
after_leaf_remove(s, page_num, path) ==
    IF is_root(Frame(s, page_num)) \/ ~leaf_underflow(Frame(s, page_num)) THEN s
    ELSE rebalance_leaf(s, page_num, path)

\* BTree::remove with the leaf fetched in s
remove_from_leaf(s, c, id) ==
    IF ~Ok(s) THEN [s |-> s, ret |-> FALSE]
    ELSE IF ~LeafReadable(Frame(s, c.page_num)) THEN [s |-> Fail(s, "oob"), ret |-> FALSE]
    ELSE With(LeafNode_remove(Frame(s, c.page_num), id), LAMBDA r :
         IF ~r.found THEN [s |-> s, ret |-> FALSE]
         ELSE [s |-> after_leaf_remove(SetFrame(s, c.page_num, r.p), c.page_num, c.path),
               ret |-> TRUE])

\* BTree::remove: [s, ret]
BTree_remove(s, id) ==
    IF ~possibly_contains(Frame(s, HEADER_PAGE), id) THEN [s |-> s, ret |-> FALSE]
    ELSE With(find(s, id), LAMBDA c : remove_from_leaf(get_page(c.s, c.page_num), c, id))

\* get_leftmost_leaf: [s, page_num]
RECURSIVE leftmost_loop(_, _, _)
leftmost_loop(s, curr, seen) ==
    IF ~Ok(s) THEN [s |-> s, page_num |-> curr]
    ELSE IF get_type(Frame(s, curr)) # NODE_INTERNAL THEN [s |-> s, page_num |-> curr]
    ELSE IF ~InternalReadable(Frame(s, curr)) THEN [s |-> Fail(s, "oob"), page_num |-> curr]
    ELSE IF curr \in seen THEN [s |-> Fail(s, "hang"), page_num |-> curr]
    ELSE leftmost_loop(get_page(s, get_child(Frame(s, curr), 0)),
                       get_child(Frame(s, curr), 0), seen \cup {curr})

get_leftmost_leaf(s) == leftmost_loop(get_page(s, ROOT_PAGE), ROOT_PAGE, {})

\* the rows of a leaf frame in slot order
leaf_rows(p) == [i \in 1 .. get_num_cells(p) |-> LeafNode_get_row(p, i - 1)]
leaf_keys(p) == [i \in 1 .. get_num_cells(p) |-> LeafNode_get_key(p, i - 1)]

\* one leaf of the chain walk, fetched in s
chain_step(s, curr, rows) ==
    IF ~Ok(s) THEN [s |-> s, next |-> 0, rows |-> rows]
    ELSE IF ~LeafReadable(Frame(s, curr)) THEN [s |-> Fail(s, "oob"), next |-> 0, rows |-> rows]
    ELSE [s |-> s, next |-> get_next_leaf(Frame(s, curr)),
          rows |-> rows \o leaf_rows(Frame(s, curr))]

\* the walk of the leaf chain shared by select_all and rebuild_bloom:
\* [s, rows], rows in the order the walk meets them
RECURSIVE chain_walk(_, _, _, _)
chain_walk(s, curr, seen, rows) ==
    IF curr = 0 \/ ~Ok(s) \/ Len(rows) < 0 THEN [s |-> s, rows |-> rows]
    ELSE IF curr \in seen THEN [s |-> Fail(s, "hang"), rows |-> rows]
    ELSE With(chain_step(get_page(s, curr), curr, rows), LAMBDA r :
         chain_walk(r.s, r.next, seen \cup {curr}, r.rows))

\* BTree::select_all: [s, rows], the rows printed in order
select_all(s) ==
    With(get_leftmost_leaf(s), LAMBDA l : chain_walk(l.s, l.page_num, {}, << >>))

\* range_scan inside one leaf: the rows printed, and whether a key > end
\* made the scan return
RECURSIVE range_leaf(_, _, _, _, _)
range_leaf(leaf, i, start, end, rows) ==
    IF i >= get_num_cells(leaf) \/ Len(rows) < 0 THEN [rows |-> rows, done |-> FALSE]
    ELSE IF LeafNode_get_key(leaf, i) > end THEN [rows |-> rows, done |-> TRUE]
    ELSE range_leaf(leaf, i + 1, start, end,
                    IF LeafNode_get_key(leaf, i) >= start
                    THEN Append(rows, LeafNode_get_row(leaf, i))
                    ELSE rows)

\* one leaf of range_scan, fetched in s: [s, next, rows]; next is 0 when the
\* scan is over
range_step(s, curr, start, end, rows) ==
    IF ~Ok(s) THEN [s |-> s, next |-> 0, rows |-> rows]
    ELSE IF ~LeafReadable(Frame(s, curr)) THEN [s |-> Fail(s, "oob"), next |-> 0, rows |-> rows]
    ELSE With(range_leaf(Frame(s, curr), 0, start, end, rows), LAMBDA r :
         [s |-> s, next |-> IF r.done THEN 0 ELSE get_next_leaf(Frame(s, curr)),
          rows |-> r.rows])

RECURSIVE range_walk(_, _, _, _, _, _)
range_walk(s, curr, seen, start, end, rows) ==
    IF curr = 0 \/ ~Ok(s) \/ Len(rows) < 0 THEN [s |-> s, rows |-> rows]
    ELSE IF curr \in seen THEN [s |-> Fail(s, "hang"), rows |-> rows]
    ELSE With(range_step(get_page(s, curr), curr, start, end, rows), LAMBDA r :
         range_walk(r.s, r.next, seen \cup {curr}, start, end, r.rows))

\* BTree::range_scan: [s, rows]
range_scan(s, start, end) ==
    With(find(s, start), LAMBDA c : range_walk(c.s, c.page_num, {}, start, end, << >>))

\* the linear scan of find_row: the slot of the first key equal to id, or -1
RECURSIVE leaf_scan(_, _, _)
leaf_scan(leaf, id, i) ==
    IF i >= get_num_cells(leaf) THEN -1
    ELSE IF LeafNode_get_key(leaf, i) = id THEN i
    ELSE leaf_scan(leaf, id, i + 1)

\* the Row a caller of find_row holds when nothing was found
NoRow == [id |-> 0, username |-> << >>, email |-> << >>]

\* find_row with the leaf fetched in s
find_in_leaf(s, page_num, id) ==
    IF ~Ok(s) THEN [s |-> s, found |-> FALSE, row |-> NoRow]
    ELSE IF ~LeafReadable(Frame(s, page_num))
    THEN [s |-> Fail(s, "oob"), found |-> FALSE, row |-> NoRow]
    ELSE With(leaf_scan(Frame(s, page_num), id, 0), LAMBDA i :
         IF i = -1 THEN [s |-> s, found |-> FALSE, row |-> NoRow]
         ELSE [s |-> s, found |-> TRUE, row |-> LeafNode_get_row(Frame(s, page_num), i)])

\* find_row that searches the tree whatever the filter answers
find_row_ungated(s, id) ==
    With(find(s, id), LAMBDA c : find_in_leaf(get_page(c.s, c.page_num), c.page_num, id))

\* BTree::find_row: [s, found, row]; row is meaningful when found
find_row(s, id) ==
    IF ~possibly_contains(Frame(s, HEADER_PAGE), id)
    THEN [s |-> s, found |-> FALSE, row |-> NoRow]
    ELSE With(find(s, id), LAMBDA c : find_in_leaf(get_page(c.s, c.page_num), c.page_num, id))

\* for each key met on the chain: bloom.add(key)
RECURSIVE bloom_add_all(_, _, _)
bloom_add_all(p0, rows, i) ==
    IF i > Len(rows) \/ p0[0] < 0 THEN p0
    ELSE bloom_add_all(bloom_add(p0, rows[i].id), rows, i + 1)

\* rebuild_bloom that adds the stored keys to the bits already there
rebuild_bloom_unclear(s) ==
    With(select_all(s), LAMBDA w :
    SetFrame(w.s, HEADER_PAGE, bloom_add_all(Frame(w.s, HEADER_PAGE), w.rows, 1)))
\* BTree::rebuild_bloom
rebuild_bloom(s) ==
    With(select_all(SetFrame(s, HEADER_PAGE, bloom_clear(Frame(s, HEADER_PAGE)))), LAMBDA w :
    SetFrame(w.s, HEADER_PAGE, bloom_add_all(Frame(w.s, HEADER_PAGE), w.rows, 1)))

\* the constructor's first run: page 1 becomes an empty root leaf
create_root(s) ==
    With(get_page([s EXCEPT !.header.total_pages = ROOT_PAGE + 1], ROOT_PAGE), LAMBDA t1 :
    write_header(SetFrame(t1, ROOT_PAGE,
                          set_root(LeafNode_initialize(Frame(t1, ROOT_PAGE)), TRUE))))

\* BTree::BTree on an open pager
BTree_open(s) ==
    rebuild_bloom(get_page(IF s.header.total_pages <= ROOT_PAGE THEN create_root(s) ELSE s,
                           HEADER_PAGE))

\* ------------------------------------------------------------------------
\* The engine as a state machine (src/main.cpp: one command per step)
\*   db       the pager and the tree's pages
\*   model    the rows a keyed map holds after the same commands
\*   out      what the last command reported
\*   script   the commands of the workload still to run
\*   nops     commands run after the workload
\*   written  pager-level runs: the content the caller last wrote to each page
\* ------------------------------------------------------------------------
VARIABLES db, model, out, script, nops, written

vars == << db, model, out, script, nops, written >>

Keys == 1 .. MaxKey
Usernames == { << 97 >>, << 98 >> }
Emails == { << >> }
RowsOf(k) == { [id |-> k, username |-> u, email |-> e] : u \in Usernames, e \in Emails }
ScriptRow(k) == [id |-> k, username |-> << 97 >>, email |-> << >>]

\* workloads: k inserts ScriptRow(k), -k removes k
Ascending == [i \in 1 .. MaxKey |-> i]
Descending == [i \in 1 .. MaxKey |-> MaxKey + 1 - i]
Interleaved == [i \in 1 .. MaxKey |-> IF i <= MaxKey - 3 THEN i + 3 ELSE i - (MaxKey - 3)]
Churn == Interleaved \o << -4, -MaxKey, -(MaxKey - 1), MaxKey - 1 >>
Drain == Ascending \o [i \in 1 .. MaxKey |-> -(MaxKey + 1 - i)]
Purge == Interleaved \o [i \in 1 .. MaxKey |-> -Interleaved[MaxKey + 1 - i]]
Workloads == { Descending, Churn, Drain, Purge }

Init ==
    /\ db = BTree_open(Pager_open(<< >>, 0))
    /\ model = << >>
    /\ out = [op |-> "open"]
    /\ script \in Workloads
    /\ nops = 0
    /\ written = << >>

\* the command is the next one of the workload
Scripted(cmd) ==
    /\ script # << >> /\ nops = 0 /\ Head(script) = cmd
    /\ script' = Tail(script) /\ nops' = nops

\* the command is typed after the workload
Typed == nops < MaxOps /\ script' = << >> /\ nops' = nops + 1

Insert(k) ==
    /\ Ok(db)
    /\ \E row \in RowsOf(k) :
          /\ (row = ScriptRow(k) /\ Scripted(k)) \/ Typed
          /\ \E r \in { BTree_insert(db, k, row) } :
                /\ db' = r.s
                /\ out' = [op |-> "insert", key |-> k, status |-> r.status]
          /\ model' = IF k \in DOMAIN model THEN model ELSE FnPut(model, k, row)
    /\ written' = written

Remove(k) ==
    /\ Ok(db)
    /\ Scripted(-k) \/ Typed
    /\ \E r \in { BTree_remove(db, k) } :
          /\ db' = r.s
          /\ out' = [op |-> "remove", key |-> k, ret |-> r.ret]
    /\ model' = FnDel(model, k)
    /\ written' = written

FindRow(k) ==
    /\ Ok(db) /\ Typed
    /\ \E r \in { find_row(db, k) } :
          /\ db' = r.s
          /\ out' = [op |-> "find_row", key |-> k, found |-> r.found, row |-> r.row]
    /\ UNCHANGED << model, written >>

SelectAll ==
    /\ Ok(db) /\ Typed
    /\ \E r \in { select_all(db) } :
          /\ db' = r.s
          /\ out' = [op |-> "select_all", rows |-> r.rows]
    /\ UNCHANGED << model, written >>

RangeScan(lo, hi) ==
    /\ Ok(db) /\ Typed
    /\ \E r \in { range_scan(db, lo, hi) } :
          /\ db' = r.s
          /\ out' = [op |-> "range_scan", lo |-> lo, hi |-> hi, rows |-> r.rows]
    /\ UNCHANGED << model, written >>

RebuildBloom ==
    /\ Ok(db) /\ Typed
    /\ db' = rebuild_bloom(db)
    /\ out' = [op |-> "rebuild_bloom"]
    /\ UNCHANGED << model, written >>

\* .exit and a new run on the same file: ~Pager, then Pager and BTree constructed
Reopen ==
    /\ Ok(db) /\ Typed
    /\ \E closed \in { Pager_close(db) } :
          db' = BTree_open(Pager_open(closed.file, closed.file_length))
    /\ out' = [op |-> "reopen"]
    /\ UNCHANGED << model, written >>

Next ==
    \/ \E k \in Keys : Insert(k)
    \/ \E k \in Keys : Remove(k)
    \/ \E k \in Keys : FindRow(k)
    \/ SelectAll
    \/ \E lo \in Keys, hi \in Keys : RangeScan(lo, hi)
    \/ RebuildBloom
    \/ Reopen

Spec == Init /\ [][Next]_vars

\* ------------------------------------------------------------------------
\* The pager alone, driven through get_page (src/pager.cpp):
\*   db       the pager
\*   written  the content last written into each page's frame
\*   out      the last call and, for get_page, the frame it returned
\*   nops     calls made
\* ------------------------------------------------------------------------
PageNums == 1 .. BUFFER_POOL_SIZE
MaxPagerOps == BUFFER_POOL_SIZE + 1
\* what a caller writes into page n: a leaf holding row n when n is odd (flush
\* stamps its CRC), a free page whose next pointer is n when n is even
ContentOf(n) ==
    IF n % 2 = 1 THEN LeafNode_insert(LeafNode_initialize(ZeroPage), n, ScriptRow(n))
    ELSE PutU32(set_type(ZeroPage, NODE_FREE), HEADER_SIZE, n)

\* a frame is zero-filled when its page is first fetched
Fetched(w, n) == IF n \in DOMAIN w THEN w ELSE FnPut(w, n, ZeroPage)
\* flush writes the CRC into the frame of every page evicted between
\* before and after
Flushed(w, before, after) ==
    [n \in DOMAIN w |-> IF Resident(before, n) /\ ~Resident(after, n)
                        THEN flush_stamp(n, w[n]) ELSE w[n]]

PagerInit ==
    /\ db = Pager_open(<< >>, 0)
    /\ model = << >>
    /\ out = [op |-> "open"]
    /\ script = << >>
    /\ nops = 0
    /\ written = << >>

\* p = get_page(n)
PagerGet(n) ==
    /\ Ok(db) /\ nops < MaxPagerOps
    /\ \E s1 \in { get_page(db, n) } :
          /\ db' = s1
          /\ written' = Flushed(Fetched(written, n), db, s1)
          /\ out' = [op |-> "get_page", page |-> n, miss |-> ~Resident(db, n),
                     frame |-> Frame(s1, n)]
    /\ nops' = nops + 1
    /\ UNCHANGED << model, script >>

\* memcpy(get_page(n), c, PAGE_SIZE)
PagerWrite(n) ==
    /\ Ok(db) /\ nops < MaxPagerOps
    /\ \E s1 \in { get_page(db, n) } :
          /\ db' = SetFrame(s1, n, ContentOf(n))
          /\ written' = FnPut(Flushed(written, db, s1), n, ContentOf(n))
          /\ out' = [op |-> "write", page |-> n]
    /\ nops' = nops + 1
    /\ UNCHANGED << model, script >>

PagerNext ==
    \/ \E n \in PageNums : PagerGet(n)
    \/ \E n \in PageNums : PagerWrite(n)

PagerSpec == PagerInit /\ [][PagerNext]_vars

\* ------------------------------------------------------------------------
\* The pager under callers that pin: get_page, pin_page and unpin_page over
\* the pages 1 .. BUFFER_POOL_SIZE, from a fresh file (page 0 is resident and
\* pinned by the constructor)
\* ------------------------------------------------------------------------
MaxPins == 1

\* pool.size() >= BUFFER_POOL_SIZE and no frame that evict_lru may take
PoolExhausted(s) ==
    /\ Cardinality(DOMAIN s.pool) >= BUFFER_POOL_SIZE
    /\ \A n \in DOMAIN s.pool : is_pinned(s, n)

\* get_page(n)
PinnedGet(n) ==
    /\ Ok(db)
    /\ db' = get_page(db, n)
    /\ out' = [op |-> "get_page", miss |-> ~Resident(db, n),
               exhausted |-> PoolExhausted(db)]
    /\ UNCHANGED << model, script, nops, written >>

\* pin_page(n), by a caller that holds the frame of page n
PagerPin(n) ==
    /\ Ok(db)
    /\ Resident(db, n)
    /\ is_pinned(db, n) => db.pin_counts[n] < MaxPins
    /\ db' = pin_page(db, n)
    /\ out' = [op |-> "pin_page"]
    /\ UNCHANGED << model, script, nops, written >>

\* unpin_page(n)
PagerUnpin(n) ==
    /\ Ok(db)
    /\ is_pinned(db, n)
    /\ db' = unpin_page(db, n)
    /\ out' = [op |-> "unpin_page"]
    /\ UNCHANGED << model, script, nops, written >>

PinNext ==
    \/ \E n \in PageNums : PinnedGet(n)
    \/ \E n \in PageNums : PagerPin(n)
    \/ \E n \in PageNums : PagerUnpin(n)

PinSpec == PagerInit /\ [][PinNext]_vars

\* get_page(n), the page number kept
LruGet(n) ==
    /\ Ok(db)
    /\ db' = get_page(db, n)
    /\ out' = [op |-> "get_page", page |-> n, miss |-> ~Resident(db, n),
               exhausted |-> PoolExhausted(db)]
    /\ UNCHANGED << model, script, nops, written >>

LruNext ==
    \/ \E n \in PageNums : LruGet(n)
    \/ \E n \in PageNums : PagerPin(n)
    \/ \E n \in PageNums : PagerUnpin(n)

LruSpec == PagerInit /\ [][LruNext]_vars

\* ------------------------------------------------------------------------
\* The pager opened on a closed two-page file whose page 1 may have been
\* damaged on disk: get_page over pages 0 and 1
\* ------------------------------------------------------------------------
\* the file of a new database after close: the header page and the root leaf
ClosedFile == Pager_close(BTree_open(Pager_open(<< >>, 0))).file

\* page 1 as flush writes it: a leaf with a row, the same bytes typed
\* INTERNAL, a free page
StampedPages ==
    { flush_stamp(ROOT_PAGE, ContentOf(ROOT_PAGE)),
      flush_stamp(ROOT_PAGE, set_type(ContentOf(ROOT_PAGE), NODE_INTERNAL)),
      flush_stamp(ROOT_PAGE, ContentOf(ROOT_PAGE + 1)) }

\* damage to the bytes of a page outside its checksum field
DamagedOffsets == { OFFSET_IS_ROOT, HEADER_SIZE, PAGE_SIZE - 1 }
DataDamage(p) ==
    {p} \cup { PutU8(p, o, (p[o] + d) % 256) : o \in DamagedOffsets, d \in {1, 128} }

\* damage to the checksum field: zeroed, or one byte changed
FieldDamage(p) ==
    { p, set_checksum(p, << 0, 0, 0, 0 >>),
      PutU8(p, OFFSET_CHECKSUM, (p[OFFSET_CHECKSUM] + 1) % 256) }

DiskImages == UNION { FieldDamage(q) : q \in UNION { DataDamage(p) : p \in StampedPages } }

CrcInit ==
    /\ \E img \in DiskImages :
          db = Pager_open(<< ClosedFile[1], img >>, 2 * PAGE_SIZE)
    /\ model = << >>
    /\ out = [op |-> "open"]
    /\ script = << >>
    /\ nops = 0
    /\ written = << >>

\* p = get_page(n)
CrcGet(n) ==
    /\ Ok(db)
    /\ db' = get_page(db, n)
    /\ out' = [op |-> "get_page", page |-> n, miss |-> ~Resident(db, n),
               disk |-> file_read(db, n), frame |-> Frame(get_page(db, n), n)]
    /\ UNCHANGED << model, script, nops, written >>

CrcNext == \E n \in {HEADER_PAGE, ROOT_PAGE} : CrcGet(n)

CrcSpec == CrcInit /\ [][CrcNext]_vars

\* ------------------------------------------------------------------------
\* One internal node in the frame of page 1, under insert_child, remove_key
\* and find_child
\* ------------------------------------------------------------------------
\* the children and the keys of an internal node, in order
Children(p) == [i \in 1 .. (get_num_keys(p) + 1) |-> get_child(p, i - 1)]
NodeKeys(p) == [i \in 1 .. get_num_keys(p) |-> InternalNode_get_key(p, i - 1)]

\* the node with keys ks and children ch (one more child than keys)
RECURSIVE build_cells(_, _, _, _)
build_cells(p, ks, ch, i) ==
    IF i > Len(ks) THEN p
    ELSE build_cells(InternalNode_set_key(set_cell_child(p, i - 1, ch[i]), i - 1, ks[i]),
                     ks, ch, i + 1)
BuildNode(ks, ch) ==
    set_right_child(set_num_keys(build_cells(InternalNode_initialize(ZeroPage), ks, ch, 1),
                                 Len(ks)),
                    ch[Len(ks) + 1])

\* how many node operations one behaviour applies
MaxNodeOps == 3

\* page numbers for children: enough for a full node and a new child
ChildPages == (ROOT_PAGE + 1) .. (ROOT_PAGE + INTERNAL_MAX_CELLS + 2)
\* the first n even keys over the first n + 1 child pages
StartNode(n) == BuildNode([i \in 1 .. n |-> 2 * i], [i \in 1 .. (n + 1) |-> ROOT_PAGE + i])

TheNode == Frame(db, ROOT_PAGE)

NodeInit ==
    /\ \E n \in 0 .. INTERNAL_MAX_CELLS :
          db = SetFrame(get_page(Pager_open(<< >>, 0), ROOT_PAGE), ROOT_PAGE, StartNode(n))
    /\ model = << >>
    /\ out = [op |-> "open"]
    /\ script = << >>
    /\ nops = 0
    /\ written = << >>

\* new_key keeps the keys in order when it goes in at index
FitsAt(p, index, new_key) ==
    /\ index > 0 => InternalNode_get_key(p, index - 1) < new_key
    /\ index < get_num_keys(p) => new_key < InternalNode_get_key(p, index)

\* the lowest child page the node does not hold
FreshChild(p) ==
    CHOOSE c \in ChildPages :
        /\ \A i \in 1 .. Len(Children(p)) : Children(p)[i] # c
        /\ \A d \in ChildPages : (\A i \in 1 .. Len(Children(p)) : Children(p)[i] # d) => c <= d

\* node.insert_child(index, new_key, new_child) with a child page not in the node
NodeInsertChild(index, new_key, new_child) ==
    /\ get_num_keys(TheNode) < INTERNAL_MAX_CELLS
    /\ index <= get_num_keys(TheNode)
    /\ FitsAt(TheNode, index, new_key)
    /\ nops < MaxNodeOps
    /\ new_child = FreshChild(TheNode)
    /\ db' = SetFrame(db, ROOT_PAGE, insert_child(TheNode, index, new_key, new_child))
    /\ out' = [op |-> "insert_child", index |-> index, key |-> new_key,
               child |-> new_child, before |-> TheNode]
    /\ nops' = nops + 1
    /\ UNCHANGED << model, script, written >>

\* node.remove_key(idx)
NodeRemoveKey(idx) ==
    /\ nops < MaxNodeOps
    /\ idx < get_num_keys(TheNode)
    /\ db' = SetFrame(db, ROOT_PAGE, remove_key(TheNode, idx))
    /\ out' = [op |-> "remove_key", index |-> idx, before |-> TheNode]
    /\ nops' = nops + 1
    /\ UNCHANGED << model, script, written >>

\* node.find_child(k)
NodeFindChild(k) ==
    /\ nops < MaxNodeOps
    /\ db' = db
    /\ out' = [op |-> "find_child", key |-> k, child |-> find_child(TheNode, k),
               before |-> TheNode]
    /\ nops' = nops + 1
    /\ UNCHANGED << model, script, written >>

NodeNext ==
    \/ \E index \in 0 .. INTERNAL_MAX_CELLS, new_key \in Keys, new_child \in ChildPages :
          NodeInsertChild(index, new_key, new_child)
    \/ \E idx \in 0 .. (INTERNAL_MAX_CELLS - 1) : NodeRemoveKey(idx)
    \/ \E k \in Keys : NodeFindChild(k)

NodeSpec == NodeInit /\ [][NodeNext]_vars

\* ------------------------------------------------------------------------
\* split_internal on a full internal node: the root itself, or a child of a
\* root with m keys
\* ------------------------------------------------------------------------
\* a new page holding an empty leaf, as split_leaf and create_root make one
AllocLeaf(s) ==
    With(get_unused_page_num(s), LAMBDA a :
        SetFrame(get_page(a.s, a.page), a.page, LeafNode_initialize(ZeroPage)))
RECURSIVE AllocLeaves(_, _)
AllocLeaves(s, k) == IF k = 0 \/ ~Ok(s) THEN s ELSE AllocLeaves(AllocLeaf(s), k - 1)

\* a write of page n through a fresh pointer
PutPage(s, n, p) == SetFrame(get_page(s, n), n, p)

\* the keys of the child at position j of the root are spread between the
\* root's keys j - 1 and j, with room for one more key between any two
KeySpan == 4 * INTERNAL_MAX_CELLS + 4
FullNode(j, first_child) ==
    BuildNode([i \in 1 .. INTERNAL_MAX_CELLS |-> KeySpan * j + 4 * i],
              [i \in 1 .. (INTERNAL_MAX_CELLS + 1) |-> first_child + i - 1])
PendingKey(j, child_index) == KeySpan * j + 4 * child_index + 2

\* m = 0: page 1 is a full internal root over the leaves 2 .. N + 2.
\* m > 0: page 1 is an internal root with m keys over the pages 2 .. m + 2,
\* its child j is a full internal node over the leaves m + 3 .. m + N + 3.
\* In both the page after the last leaf is the new child still to be linked.
SplitTree(m, j) ==
    With(AllocLeaves(BTree_open(Pager_open(<< >>, 0)),
                     IF m = 0 THEN INTERNAL_MAX_CELLS + 2
                     ELSE m + INTERNAL_MAX_CELLS + 3), LAMBDA s :
        IF m = 0
        THEN PutPage(s, ROOT_PAGE, set_root(FullNode(0, ROOT_PAGE + 1), TRUE))
        ELSE PutPage(PutPage(s, ROOT_PAGE,
                             set_root(BuildNode([i \in 1 .. m |-> KeySpan * i],
                                                [i \in 1 .. (m + 1) |-> ROOT_PAGE + i]),
                                      TRUE)),
                     ROOT_PAGE + 1 + j, FullNode(j, m + 3)))

SplitInit ==
    /\ \E m \in 0 .. INTERNAL_MAX_CELLS, j \in 0 .. INTERNAL_MAX_CELLS :
          /\ j <= m
          /\ m = 0 => j = 0
          /\ db = SplitTree(m, j)
          /\ out = [op |-> "open", pos |-> j,
                    page |-> IF m = 0 THEN ROOT_PAGE ELSE ROOT_PAGE + 1 + j,
                    path |-> IF m = 0 THEN << >> ELSE << ROOT_PAGE >>]
    /\ model = << >>
    /\ script = << >>
    /\ nops = 0
    /\ written = << >>

\* a page is fetched before the split, as a lookup would
SplitTouch(n) ==
    /\ Ok(db) /\ out.op \in {"open", "get_page"}
    /\ nops < MaxNodeOps - 1
    /\ n < db.header.total_pages
    /\ db' = get_page(db, n)
    /\ out' = [out EXCEPT !.op = "get_page"]
    /\ nops' = nops + 1
    /\ UNCHANGED << model, script, written >>

\* split_internal(page, child_index, new_key, new_child_page, path) with the
\* last allocated page as the new child
SplitInternal(child_index) ==
    /\ Ok(db) /\ out.op \in {"open", "get_page"}
    /\ db' = split_internal(db, out.page, child_index, PendingKey(out.pos, child_index),
                            db.header.total_pages - 1, out.path)
    /\ out' = [op |-> "split_internal", pos |-> out.pos, page |-> out.page,
               path |-> out.path, index |-> child_index,
               key |-> PendingKey(out.pos, child_index),
               child |-> db.header.total_pages - 1,
               before |-> PageOf(db, out.page),
               parent |-> PageOf(db, ROOT_PAGE),
               total |-> db.header.total_pages]
    /\ UNCHANGED << model, script, nops, written >>

SplitNext ==
    \/ \E n \in ROOT_PAGE .. (2 * INTERNAL_MAX_CELLS + 4) : SplitTouch(n)
    \/ \E child_index \in 0 .. INTERNAL_MAX_CELLS : SplitInternal(child_index)

SplitSpec == SplitInit /\ [][SplitNext]_vars

\* ------------------------------------------------------------------------
\* The free list under get_unused_page_num and free_page, from a new
\* database (header page and root leaf):
\*   db     the pager
\*   model  the pages in use: handed out and not freed since
\* ------------------------------------------------------------------------
MaxFreeOps == 5
\* the page numbers free_page is called with
FreeNums == HEADER_PAGE .. (ROOT_PAGE + 3)

FreeInit ==
    /\ db = BTree_open(Pager_open(<< >>, 0))
    /\ model = {HEADER_PAGE, ROOT_PAGE}
    /\ out = [op |-> "open"]
    /\ script = << >>
    /\ nops = 0
    /\ written = << >>

\* get_unused_page_num() by a caller that makes the page a leaf
PagerAlloc ==
    /\ Ok(db) /\ nops < MaxFreeOps
    /\ db' = AllocLeaf(db)
    /\ out' = [op |-> "allocate_page", page |-> get_unused_page_num(db).page,
               in_use |-> get_unused_page_num(db).page \in model]
    /\ model' = model \cup {get_unused_page_num(db).page}
    /\ nops' = nops + 1
    /\ UNCHANGED << script, written >>

\* free_page(n)
PagerFree(n) ==
    /\ Ok(db) /\ nops < MaxFreeOps
    /\ db' = free_page(db, n)
    /\ out' = [op |-> "free_page", page |-> n]
    /\ model' = IF n > ROOT_PAGE THEN model \ {n} ELSE model
    /\ nops' = nops + 1
    /\ UNCHANGED << script, written >>

FreeNext ==
    \/ PagerAlloc
    \/ \E n \in FreeNums : PagerFree(n)

FreeSpec == FreeInit /\ [][FreeNext]_vars

\* ------------------------------------------------------------------------
\* Properties
\* ------------------------------------------------------------------------
\* a page with its checksum field cleared
Unstamped(p) == set_checksum(p, << 0, 0, 0, 0 >>)

\* the rows select_all prints
StoredRows(s) == select_all(s).rows

\* the pages on the leaf chain that starts at the leftmost leaf
RECURSIVE chain_pages(_, _, _)
chain_pages(s, curr, seen) ==
    IF curr = 0 \/ curr \in seen THEN seen
    ELSE chain_pages(s, get_next_leaf(PageOf(s, curr)), seen \cup {curr})

ChainPages(s) == chain_pages(s, get_leftmost_leaf(s).page_num, {})

\* the leaves reachable from page n through child pointers
RECURSIVE leaves_under(_, _, _)
leaves_under(s, n, fuel) ==
    IF get_type(PageOf(s, n)) # NODE_INTERNAL \/ fuel = 0 THEN {n}
    ELSE UNION { leaves_under(s, get_child(PageOf(s, n), i), fuel - 1) :
                 i \in 0 .. get_num_keys(PageOf(s, n)) }

TreeLeaves(s) == leaves_under(s, ROOT_PAGE, MaxKey)

\* the keys held by the leaves reachable from the root
StoredKeys(s) ==
    UNION { { leaf_keys(PageOf(s, L))[i] : i \in 1 .. get_num_cells(PageOf(s, L)) } :
            L \in TreeLeaves(s) }

NoKeyTwice(rows) == \A i, j \in 1 .. Len(rows) : i # j => rows[i].id # rows[j].id

StrictlyAscending(keys) == \A i \in 1 .. (Len(keys) - 1) : keys[i] < keys[i + 1]

\* the rows of the keyed map with lo <= key <= hi, in key order
RECURSIVE RowsBetween(_, _)
RowsBetween(lo, hi) ==
    IF lo > hi THEN << >>
    ELSE (IF lo \in DOMAIN model THEN << model[lo] >> ELSE << >>) \o RowsBetween(lo + 1, hi)

SameHeader(a, b) ==
    /\ a.header.total_pages = b.header.total_pages
    /\ a.header.free_pages = b.header.free_pages
    /\ a.header.first_free_page = b.header.first_free_page

\* every page after the header page holds the same bytes, checksum field aside
SameTreePages(a, b) ==
    \A n \in 1 .. (Max(a.header.total_pages, b.header.total_pages) - 1) :
        Unstamped(PageOf(a, n)) = Unstamped(PageOf(b, n))

SameBloom(a, b) ==
    \A i \in BLOOM_OFFSET .. (PAGE_SIZE - 1) :
        PageOf(a, HEADER_PAGE)[i] = PageOf(b, HEADER_PAGE)[i]

\* C1: find_row(k) returns true with the row last inserted under k when k was
\* inserted and not removed since, and false for every other key.
C1_FindRowAnswers ==
    out.op = "find_row" =>
        /\ out.found = (out.key \in DOMAIN model)
        /\ out.found => out.row = model[out.key]

\* C2: select_all visits exactly the keys inserted and not removed, each
\* once, and the leaf chain from the leftmost leaf holds exactly the leaves
\* reachable from the root.
C2_ChainIsTheLeaves ==
    /\ Len(StoredRows(db)) = Cardinality(DOMAIN model)
    /\ { StoredRows(db)[i].id : i \in 1 .. Len(StoredRows(db)) } = DOMAIN model
    /\ ChainPages(db) = TreeLeaves(db)

\* C3: no key is stored in more than one record of the leaves on the leaf chain.
C3_KeysUnique == NoKeyTwice(StoredRows(db))

\* C4: the keys of every leaf are strictly ascending by slot index, and the
\* largest key of a leaf is smaller than the smallest key of its next leaf.
C4_KeysOrdered ==
    \A L \in ChainPages(db) \cup TreeLeaves(db) :
        /\ StrictlyAscending(leaf_keys(PageOf(db, L)))
        /\ \A M \in { get_next_leaf(PageOf(db, L)) } \ {0} :
              \A i \in 1 .. get_num_cells(PageOf(db, L)) :
                  \A j \in 1 .. get_num_cells(PageOf(db, M)) :
                      leaf_keys(PageOf(db, L))[i] < leaf_keys(PageOf(db, M))[j]

\* C5: range_scan(lo, hi) emits exactly the stored rows with lo <= key <= hi,
\* in ascending key order; nothing when lo > hi.
C5_RangeScanExact ==
    out.op = "range_scan" => out.rows = RowsBetween(out.lo, out.hi)

\* C6: the Bloom filter has no false negative: possibly_contains(k) is true
\* for every key k that is stored.
C6_NoFalseNegative ==
    \A k \in StoredKeys(db) : possibly_contains(PageOf(db, HEADER_PAGE), k)

\* C7: insert of an id that is already stored is rejected as a duplicate and
\* changes neither the stored rows, nor a tree page, nor the header, nor the
\* Bloom bits.
C7_DuplicateRejected ==
    [][(out'.op = "insert" /\ out'.key \in DOMAIN model) =>
          /\ out'.status = "dup"
          /\ StoredRows(db') = StoredRows(db)
          /\ SameTreePages(db, db')
          /\ SameHeader(db, db')
          /\ SameBloom(db, db')]_vars

\* C8: remove(id) returns true exactly when id was stored before the call;
\* when it returns false the stored rows, the tree pages and the header are
\* unchanged.
C8_RemoveReports ==
    [][out'.op = "remove" =>
          /\ out'.ret = (out'.key \in DOMAIN model)
          /\ ~out'.ret => /\ StoredRows(db') = StoredRows(db)
                          /\ SameTreePages(db, db')
                          /\ SameHeader(db, db')]_vars

\* C9: close followed by reopen is lossless: total_pages, free_pages,
\* first_free_page and the rows select_all prints are the same after the
\* reopen as just before the close.
C9_ReopenLossless ==
    [][out'.op = "reopen" =>
          /\ SameHeader(db, db')
          /\ StoredRows(db') = StoredRows(db)]_vars

\* a file reopened with a free page, an internal root and rows in the leaves
C9_Witness ==
    /\ out.op = "reopen"
    /\ db.header.free_pages > 0
    /\ get_type(PageOf(db, ROOT_PAGE)) = NODE_INTERNAL
    /\ Len(StoredRows(db)) >= 3

\* C10: eviction is transparent: get_page(n) returns the content last written
\* into n's frame (by the caller, or by flush when it stamps the CRC), however
\* often n was evicted and read back from the file in between.
C10_EvictionTransparent ==
    out.op = "get_page" => out.frame = written[out.page]

\* a page the caller wrote was evicted and is read back from the file
C10_Witness ==
    /\ out.op = "get_page"
    /\ out.miss
    /\ Unstamped(out.frame) = Unstamped(ContentOf(out.page))

\* the pages the tree references, one entry per reference: n, then what is
\* referenced through each child pointer of n, cells first, right_child last
RECURSIVE tree_refs(_, _, _)
RECURSIVE child_refs(_, _, _, _)
tree_refs(s, n, fuel) ==
    IF get_type(PageOf(s, n)) # NODE_INTERNAL \/ fuel = 0 THEN << n >>
    ELSE << n >> \o child_refs(s, n, 0, fuel - 1)

child_refs(s, n, i, fuel) ==
    IF i > get_num_keys(PageOf(s, n)) \/ i > INTERNAL_MAX_CELLS THEN << >>
    ELSE tree_refs(s, get_child(PageOf(s, n), i), fuel) \o child_refs(s, n, i + 1, fuel)

TreeRefs(s) == tree_refs(s, ROOT_PAGE, MaxKey)

\* the pages on the free list, from first_free_page through the next
\* pointer each free page keeps at HEADER_SIZE
RECURSIVE free_list(_, _, _)
free_list(s, n, fuel) ==
    IF n = 0 \/ fuel = 0 THEN << >>
    ELSE << n >> \o free_list(s, U32(PageOf(s, n), HEADER_SIZE), fuel - 1)

FreeList(s) == free_list(s, s.header.first_free_page, s.header.total_pages)

\* refs names every page of 1 .. total - 1, each once
EachOnce(refs, total) ==
    /\ { refs[i] : i \in 1 .. Len(refs) } = 1 .. (total - 1)
    /\ Len(refs) = total - 1

\* C11: the pages reachable from the root through child pointers together
\* with the pages on the free list are exactly pages 1 .. total_pages - 1,
\* and no page is referenced twice.
C11_PagesPartitioned ==
    EachOnce(TreeRefs(db) \o FreeList(db), db.header.total_pages)

\* the keys stored in the leaves under page n
RECURSIVE keys_under(_, _, _)
keys_under(s, n, fuel) ==
    IF get_type(PageOf(s, n)) # NODE_INTERNAL \/ fuel = 0
    THEN { leaf_keys(PageOf(s, n))[i] : i \in 1 .. get_num_cells(PageOf(s, n)) }
    ELSE UNION { keys_under(s, get_child(PageOf(s, n), i), fuel - 1) :
                 i \in 0 .. get_num_keys(PageOf(s, n)) }

\* the internal pages reachable from the root
InternalPages(s) ==
    { TreeRefs(s)[i] : i \in 1 .. Len(TreeRefs(s)) } \ TreeLeaves(s)

\* key k may be stored under child i of internal page p: above the separator
\* on its left, not above the separator on its right; upper_closed says
\* which of the two ends admits equality
InInterval(p, i, k, upper_closed) ==
    /\ i > 0 =>
          IF upper_closed THEN InternalNode_get_key(p, i - 1) < k
          ELSE InternalNode_get_key(p, i - 1) <= k
    /\ i < get_num_keys(p) =>
          IF upper_closed THEN k <= InternalNode_get_key(p, i)
          ELSE k < InternalNode_get_key(p, i)

KeysSeparated(s, upper_closed) ==
    \A n \in InternalPages(s) :
        \A i \in 0 .. get_num_keys(PageOf(s, n)) :
            \A k \in keys_under(s, get_child(PageOf(s, n), i), MaxKey) :
                InInterval(PageOf(s, n), i, k, upper_closed)

\* C12: for every internal node and every index i, the keys in the subtree
\* of child[i] lie in (key[i-1], key[i]], and the keys under right_child are
\* greater than key[last].
C12_KeysInIntervals == KeysSeparated(db, TRUE)

\* the bytes of the usable space of leaf p that its records and slots take
used_bytes(p) == LEAF_USABLE_SPACE - get_total_free(p)

\* C13: after every completed insert or remove, every leaf other than the
\* root has num_cells >= 2 and used_bytes >= half of the usable space.
C13_LeavesHalfFull ==
    \A L \in TreeLeaves(db) \ {ROOT_PAGE} :
        /\ get_num_cells(PageOf(db, L)) >= LEAF_MIN_CELLS
        /\ used_bytes(PageOf(db, L)) >= LEAF_USABLE_SPACE \div 2

\* C14: after every completed insert or remove, every internal node other
\* than the root has num_keys >= INTERNAL_MIN_KEYS.
C14_InternalsHalfFull ==
    \A n \in InternalPages(db) \ {ROOT_PAGE} :
        get_num_keys(PageOf(db, n)) >= INTERNAL_MIN_KEYS

\* a non-root internal node exists after a completed operation
C14_Witness ==
    /\ out.op \in {"insert", "remove"}
    /\ InternalPages(db) \ {ROOT_PAGE} # {}

\* the bytes that slots 0 .. n-1 of leaf p account for
RECURSIVE slots_bytes(_, _)
slots_bytes(p, n) ==
    IF n = 0 THEN 0 ELSE slots_bytes(p, n - 1) + slot_length(p, n - 1) + SLOT_SIZE

\* the pages that the tree or the leaf chain uses as leaves
LiveLeaves(s) == TreeLeaves(s) \cup ChainPages(s)

\* C15: in every reachable state, every leaf has
\* total_free = LEAF_USABLE_SPACE - sum over its slots of (slot_length + SLOT_SIZE).
C15_TotalFreeExact ==
    \A L \in LiveLeaves(db) :
        get_total_free(PageOf(db, L)) =
            LEAF_USABLE_SPACE - slots_bytes(PageOf(db, L), get_num_cells(PageOf(db, L)))

\* the pages past the root that hold a node (not a free page) or that the
\* tree or the leaf chain reaches
LiveNodes(s) ==
    { n \in (ROOT_PAGE + 1) .. (s.header.total_pages - 1) :
        \/ get_type(PageOf(s, n)) # NODE_FREE
        \/ n \in LiveLeaves(s) \cup InternalPages(s) }

OnFreeList(s, n) == \E i \in 1 .. Len(FreeList(s)) : FreeList(s)[i] = n

\* C16: in every state reachable by insert and remove, page 1 is a LEAF or
\* INTERNAL page with is_root set, no other live node has is_root set, and
\* neither page 0 nor page 1 is on the free list.
C16_RootAtPageOne ==
    /\ get_type(PageOf(db, ROOT_PAGE)) \in {NODE_LEAF, NODE_INTERNAL}
    /\ is_root(PageOf(db, ROOT_PAGE))
    /\ \A n \in LiveNodes(db) : ~is_root(PageOf(db, n))
    /\ ~OnFreeList(db, HEADER_PAGE)
    /\ ~OnFreeList(db, ROOT_PAGE)

\* the root grew into an internal node and collapsed back into a leaf, with
\* the pages it gave up on the free list
C16_Witness ==
    /\ out.op = "remove"
    /\ get_type(PageOf(db, ROOT_PAGE)) = NODE_LEAF
    /\ FreeList(db) # << >>

\* the tree is a single root leaf at page 1 with no cell and no next leaf
EmptyRootLeaf(s) ==
    /\ get_type(PageOf(s, ROOT_PAGE)) = NODE_LEAF
    /\ is_root(PageOf(s, ROOT_PAGE))
    /\ get_num_cells(PageOf(s, ROOT_PAGE)) = 0
    /\ get_next_leaf(PageOf(s, ROOT_PAGE)) = 0

\* a workload that inserted distinct keys and then removed each of them has
\* run to its end
InsertedThenRemovedAll ==
    /\ script = << >> /\ nops = 0
    /\ out.op = "remove"
    /\ model = << >>

\* C17: after distinct keys are inserted in any order and then all removed in
\* any order, the tree is a single root leaf at page 1 with num_cells = 0 and
\* next_leaf = 0.
C17_RemoveAllEmptiesTree == InsertedThenRemovedAll => EmptyRootLeaf(db)

\* C18: after inserts followed by removal of the same keys, the free list is
\* non-empty and its length, free_pages, is total_pages - 2.
C18_FreeListHoldsTheRest ==
    InsertedThenRemovedAll =>
        /\ FreeList(db) # << >>
        /\ Len(FreeList(db)) = db.header.free_pages
        /\ db.header.free_pages = db.header.total_pages - 2

\* C19: a get_page miss when the pool is full and every resident frame is
\* pinned terminates with the fatal POOL_EXHAUSTED error: it neither retries
\* eviction forever nor continues with an over-full pool.
C19_ExhaustedPoolIsFatal ==
    (out.op = "get_page" /\ out.miss /\ out.exhausted) =>
        /\ db.fault = "pool_exhausted"
        /\ Cardinality(DOMAIN db.pool) <= BUFFER_POOL_SIZE

\* C20: during every compound tree operation that holds more than one page
\* at once, each page whose frame the operation still uses has a non-zero pin
\* count until the last use, and its pin count is back to its previous value
\* when the operation returns.
C20_HeldPagesPinned ==
    /\ ~db.unpinned_use
    /\ db.pin_counts = (HEADER_PAGE :> 1)

\* C21: from the end of Pager construction on, page 0 is resident in the pool
\* and pinned: no eviction takes it and the Bloom filter's pointer into the
\* header frame stays valid.
C21_HeaderResidentPinned ==
    /\ Resident(db, HEADER_PAGE)
    /\ is_pinned(db, HEADER_PAGE)

\* the pool is full and pages have been evicted to make room
C21_Witness ==
    /\ Cardinality(DOMAIN db.pool) = BUFFER_POOL_SIZE
    /\ db.header.total_pages > BUFFER_POOL_SIZE
    /\ \E n \in 1 .. (db.header.total_pages - 1) : ~Resident(db, n)

\* C22: whenever an engine operation has returned, the first
\* sizeof(DbHeader) bytes of the header frame equal the in-memory header, whose
\* magic is DB_MAGIC and whose page_size is PAGE_SIZE.
C22_HeaderWrittenThrough ==
    /\ GetBytes(Frame(db, HEADER_PAGE), 0, SIZEOF_DbHeader) = header_bytes(db.header)
    /\ db.header.magic = DB_MAGIC
    /\ db.header.page_size = PAGE_SIZE

\* pages have been allocated past the root and pages have been freed
C22_Witness ==
    /\ out.op \in {"insert", "remove"}
    /\ db.header.total_pages > ROOT_PAGE + 1
    /\ db.header.free_pages > 0

\* the pages of the file past page 0 that a flush has written (the pages a
\* later write skipped over are zero-filled)
FlushedPages(s) == { n \in 1 .. (Len(s.file) - 1) : s.file[n + 1] # ZeroPage }

\* C23: every LEAF or INTERNAL page past page 0 is in the file with bytes 2-5
\* equal to the CRC32 of the page computed with those bytes zeroed, so reading
\* it back yields no mismatch; page 0 and FREE pages carry no stamp.
C23_FlushedPagesStamped ==
    /\ db.crc_warned = {}
    /\ \A n \in FlushedPages(db) :
          /\ IsTreePage(db.file[n + 1]) => ~crc_mismatch(db.file[n + 1])
          /\ get_type(db.file[n + 1]) = NODE_FREE =>
                 get_checksum(db.file[n + 1]) = << 0, 0, 0, 0 >>
    /\ Len(db.file) > 0 /\ db.file[1] # ZeroPage =>
          /\ header_parse(db.file[1]).magic = DB_MAGIC
          /\ header_parse(db.file[1]).page_size = PAGE_SIZE

\* the file holds a flushed leaf, a flushed internal node with keys and a
\* flushed free page
C23_Witness ==
    /\ \E n \in FlushedPages(db) : get_type(db.file[n + 1]) = NODE_LEAF
    /\ \E n \in FlushedPages(db) :
          get_type(db.file[n + 1]) = NODE_INTERNAL /\ get_num_keys(db.file[n + 1]) > 0
    /\ \E n \in FlushedPages(db) : get_type(db.file[n + 1]) = NODE_FREE

\* C24: on a miss that reads a LEAF or INTERNAL page from the file, get_page
\* warns whenever the stored CRC differs from the CRC32 recomputed with the
\* field zeroed, for every stored value, and returns the frame holding the
\* on-disk bytes.
C24_MismatchWarned ==
    (out.op = "get_page" /\ out.miss /\ out.page > HEADER_PAGE /\ IsTreePage(out.disk)) =>
        /\ crc_mismatch(out.disk) => out.page \in db.crc_warned
        /\ out.frame = out.disk
        /\ Ok(db)

\* every Bloom bit set in a is set in b
BloomGrows(a, b) ==
    \A k \in 0 .. (BLOOM_BITS - 1) :
        get_bit(PageOf(a, HEADER_PAGE), k) => get_bit(PageOf(b, HEADER_PAGE), k)

\* C25: remove never clears a Bloom bit: the bit-array is identical before and
\* after every remove, found or not, and between two rebuild_bloom calls the
\* set of set bits only grows.
C25_RemoveKeepsBloom ==
    [][/\ out'.op = "remove" => SameBloom(db, db')
       /\ out'.op \notin {"rebuild_bloom", "reopen"} => BloomGrows(db, db')]_vars

\* a remove has taken a key out of the tree and the key's bits are still set
C25_Witness ==
    /\ out.op = "remove"
    /\ out.ret
    /\ out.key \notin StoredKeys(db)
    /\ possibly_contains(PageOf(db, HEADER_PAGE), out.key)

SeqInsert(seq, i, x) == SubSeq(seq, 1, i) \o << x >> \o SubSeq(seq, i + 1, Len(seq))
\* seq without its element i
SeqDrop(seq, i) == SubSeq(seq, 1, i - 1) \o SubSeq(seq, i + 1, Len(seq))

\* C27: insert_child(index, new_key, new_child) on a node with n keys,
\* n < INTERNAL_MAX_CELLS and index <= n, gives the children C_0..C_index,
\* new_child, C_index+1..C_n and the keys K_0..K_index-1, new_key, K_index..K_n-1.
C27_InsertChildKeepsAll ==
    out.op = "insert_child" =>
        /\ Children(TheNode) = SeqInsert(Children(out.before), out.index + 1, out.child)
        /\ NodeKeys(TheNode) = SeqInsert(NodeKeys(out.before), out.index, out.key)

\* C29: remove_key(idx) on a node with n >= 1 keys and idx < n removes
\* key[idx] and child[idx + 1] (right_child when idx = n - 1) and keeps every
\* other key and child once and in order, child[idx] among them.
C29_RemoveKeyDropsRightChild ==
    out.op = "remove_key" =>
        /\ NodeKeys(TheNode) = SeqDrop(NodeKeys(out.before), out.index + 1)
        /\ Children(TheNode) = SeqDrop(Children(out.before), out.index + 2)
        /\ get_child(TheNode, out.index) = get_child(out.before, out.index)

\* a key in the middle of a full node was removed
C29_Witness ==
    /\ out.op = "remove_key"
    /\ get_num_keys(out.before) = INTERNAL_MAX_CELLS
    /\ out.index > 0
    /\ out.index < get_num_keys(out.before) - 1

Sorted(seq) == \A i, j \in 1 .. Len(seq) : i < j => seq[i] < seq[j]
\* the positions of the keys above k
Above(p, k) == { i \in 1 .. get_num_keys(p) : k < NodeKeys(p)[i] }

\* C30: on a node with sorted keys find_child(k) returns child(i) for the
\* smallest i with k < key[i], right_child when there is none, and
\* child(i + 1) when k = key[i].
C30_FindChildRoutes ==
    (out.op = "find_child" /\ Sorted(NodeKeys(out.before))) =>
        /\ Above(out.before, out.key) = {} => out.child = get_right_child(out.before)
        /\ \A i \in Above(out.before, out.key) :
              (\A j \in Above(out.before, out.key) : i <= j) =>
                  out.child = Children(out.before)[i]
        /\ \A i \in 1 .. get_num_keys(out.before) :
              NodeKeys(out.before)[i] = out.key => out.child = Children(out.before)[i + 1]

\* a search key equal to a separator that is not the last, in a full node
C30_Witness ==
    /\ out.op = "find_child"
    /\ get_num_keys(out.before) = INTERNAL_MAX_CELLS
    /\ Sorted(NodeKeys(out.before))
    /\ \E i \in 1 .. (get_num_keys(out.before) - 1) : NodeKeys(out.before)[i] = out.key

\* the keys and the children split_internal gathers from the node old and
\* the pending pair
GatheredKeys(old, index, key) == SeqInsert(NodeKeys(old), index, key)
GatheredChildren(old, index, child) == SeqInsert(Children(old), index + 1, child)
\* mid = (N + 1) / 2 for a node old with N keys
SplitMid(old) == (get_num_keys(old) + 1) \div 2

\* left and right are the two halves of old with the pair (key, child)
\* pending at index: keys [0, mid) with children [0, mid] on the left, keys
\* (mid, N] with children [mid + 1, N + 1] on the right
SplitsInto(old, index, key, child, left, right) ==
    /\ get_type(left) = NODE_INTERNAL /\ get_type(right) = NODE_INTERNAL
    /\ NodeKeys(left) = SubSeq(GatheredKeys(old, index, key), 1, SplitMid(old))
    /\ Children(left) = SubSeq(GatheredChildren(old, index, child), 1, SplitMid(old) + 1)
    /\ NodeKeys(right) = SubSeq(GatheredKeys(old, index, key), SplitMid(old) + 2,
                                get_num_keys(old) + 1)
    /\ Children(right) = SubSeq(GatheredChildren(old, index, child), SplitMid(old) + 2,
                                get_num_keys(old) + 2)
\* the key that goes up
PushUpKey(old, index, key) == GatheredKeys(old, index, key)[SplitMid(old) + 1]

\* page n is a root with the single key over left_page and right_page
RootOver(p, key, left_page, right_page) ==
    /\ get_type(p) = NODE_INTERNAL /\ is_root(p)
    /\ NodeKeys(p) = << key >>
    /\ Children(p) = << left_page, right_page >>

\* C28: split_internal of a full node with N keys and a pending pair at
\* child_index leaves keys [0, mid) and children [0, mid] in the old node,
\* keys (mid, N] and children [mid + 1, N + 1] in the new node, where
\* mid = (N + 1) / 2, and sends the key at mid up: into the re-initialised
\* page 1 over the two halves when the node was the root, else into the
\* parent next to the old node, with the new node as the child to its right
\* (through a split of the parent when the parent is full).
C28_SplitInternalHalves ==
    out.op = "split_internal" =>
        /\ Ok(db)
        /\ IF out.path = << >>
           THEN /\ SplitsInto(out.before, out.index, out.key, out.child,
                              PageOf(db, out.total + 1), PageOf(db, out.total))
                /\ RootOver(PageOf(db, ROOT_PAGE),
                            PushUpKey(out.before, out.index, out.key),
                            out.total + 1, out.total)
           ELSE /\ SplitsInto(out.before, out.index, out.key, out.child,
                              PageOf(db, out.page), PageOf(db, out.total))
                /\ IF get_num_keys(out.parent) < INTERNAL_MAX_CELLS
                   THEN /\ NodeKeys(PageOf(db, ROOT_PAGE)) =
                               GatheredKeys(out.parent, out.pos,
                                            PushUpKey(out.before, out.index, out.key))
                        /\ get_child(PageOf(db, ROOT_PAGE), out.pos) = out.page
                        /\ get_child(PageOf(db, ROOT_PAGE), out.pos + 1) = out.total
                   ELSE /\ SplitsInto(out.parent, out.pos,
                                      PushUpKey(out.before, out.index, out.key), out.total,
                                      PageOf(db, out.total + 2), PageOf(db, out.total + 1))
                        /\ RootOver(PageOf(db, ROOT_PAGE),
                                    PushUpKey(out.parent, out.pos,
                                              PushUpKey(out.before, out.index, out.key)),
                                    out.total + 2, out.total + 1)

\* a node that is neither the root nor the last child of its parent was
\* split with the pending pair in its middle, and the parent had room
C28_Witness ==
    /\ out.op = "split_internal"
    /\ Ok(db)
    /\ out.path # << >>
    /\ get_num_keys(out.parent) < INTERNAL_MAX_CELLS
    /\ out.pos < get_num_keys(out.parent) - 1
    /\ out.index > 0 /\ out.index < get_num_keys(out.before)

\* the bytes the first n rows of all_rows take, slots included
RECURSIVE prefix_bytes(_, _)
prefix_bytes(all_rows, n) ==
    IF n = 0 THEN 0
    ELSE prefix_bytes(all_rows, n - 1) + serialized_row_size(all_rows[n]) + SLOT_SIZE
\* the lengths of the prefixes that take more than half of the usable space
ExceedingPrefixes(all_rows) ==
    { n \in 1 .. Len(all_rows) : prefix_bytes(all_rows, n) > LEAF_USABLE_SPACE \div 2 }
\* insert(k) reaches a leaf without k in which row does not fit
SplitsLeaf(s, k, row) ==
    With(find(s, k), LAMBDA c :
        /\ Ok(c.s)
        /\ get_type(PageOf(s, c.page_num)) = NODE_LEAF
        /\ \A i \in 1 .. get_num_cells(PageOf(s, c.page_num)) :
              leaf_keys(PageOf(s, c.page_num))[i] # k
        /\ ~can_fit(PageOf(s, c.page_num), serialized_row_size(row)))
\* the existing rows of the leaf insert(k) reaches, with row merged in
CombinedRows(s, k, row) ==
    all_rows_loop(PageOf(s, find(s, k).page_num), k, row, 0, FALSE, << >>)
\* the page that holds the left half after the split of the leaf that
\* insert(k) reached in s: the left copy when that leaf was the root
LeftLeafPage(s, t, k) ==
    IF is_root(PageOf(s, find(s, k).page_num))
    THEN get_child(PageOf(t, ROOT_PAGE), 0)
    ELSE find(s, k).page_num
\* left holds the first n rows of all_rows, the leaf next to it the others
HalvesAt(t, left, all_rows, n) ==
    /\ get_type(left) = NODE_LEAF
    /\ leaf_rows(left) = SubSeq(all_rows, 1, n)
    /\ get_type(PageOf(t, get_next_leaf(left))) = NODE_LEAF
    /\ leaf_rows(PageOf(t, get_next_leaf(left))) = SubSeq(all_rows, n + 1, Len(all_rows))

\* C31: when an insert splits a leaf, the left leaf keeps the smallest
\* prefix of the combined sorted rows whose cumulative size + 4 exceeds half
\* of the usable space (at least one row) and the new right leaf holds the
\* remaining rows.
C31_SplitKeepsExceedingPrefix ==
    [][\A k \in Keys :
          (/\ out'.op = "insert" /\ out'.key = k /\ out'.status = "ok"
           /\ k \notin DOMAIN model
           /\ SplitsLeaf(db, k, model'[k])) =>
              \E n \in ExceedingPrefixes(CombinedRows(db, k, model'[k])) :
                  /\ \A m \in ExceedingPrefixes(CombinedRows(db, k, model'[k])) : n <= m
                  /\ HalvesAt(db', PageOf(db', LeftLeafPage(db, db', k)),
                              CombinedRows(db, k, model'[k]), n)]_vars

\* What rebalance_leaf does when remove(k) runs in s: the pair of sibling
\* leaves of a borrow and the index of the separator between them, or
\* kind "none" when k is not found, the leaf does not underflow, or the
\* leaves are merged.
NoBorrow == [kind |-> "none", parent |-> 0, sep |-> 0, left |-> 0, right |-> 0]
BorrowAt(s, c, idx) ==
    IF idx = -1 \/ c.path = << >> THEN NoBorrow
    ELSE IF ~leaf_underflow(remove_at(PageOf(s, c.page_num), idx)) THEN NoBorrow
    ELSE With(PageOf(s, c.path[Len(c.path)]), LAMBDA parent :
         With(find_child_index(parent, c.page_num), LAMBDA ci :
         IF ci = -1 THEN NoBorrow
         ELSE IF ci > 0 /\ can_lend(PageOf(s, get_child(parent, ci - 1)))
         THEN [kind |-> "left", parent |-> c.path[Len(c.path)], sep |-> ci - 1,
               left |-> get_child(parent, ci - 1), right |-> c.page_num]
         ELSE IF ci < get_num_keys(parent) /\ can_lend(PageOf(s, get_child(parent, ci + 1)))
         THEN [kind |-> "right", parent |-> c.path[Len(c.path)], sep |-> ci,
               left |-> c.page_num, right |-> get_child(parent, ci + 1)]
         ELSE NoBorrow))
BorrowOf(s, k) ==
    IF ~possibly_contains(PageOf(s, HEADER_PAGE), k) THEN NoBorrow
    ELSE With(find(s, k), LAMBDA c :
         IF ~Ok(c.s) \/ get_type(PageOf(s, c.page_num)) # NODE_LEAF THEN NoBorrow
         ELSE BorrowAt(s, c, leaf_search(PageOf(s, c.page_num), k, 0,
                                         get_num_cells(PageOf(s, c.page_num)))))

RowSet(p) == { leaf_rows(p)[i] : i \in 1 .. get_num_cells(p) }
\* find routes every key of the leaf on page n to page n
RoutedTo(s, n) ==
    \A i \in 1 .. get_num_cells(PageOf(s, n)) :
        find(s, leaf_keys(PageOf(s, n))[i]).page_num = n

\* the step from s to t was remove(k) with the borrow b
BorrowedRight(s, t, k, b) ==
    /\ Ok(t)
    /\ get_num_cells(PageOf(t, b.right)) > 0
    /\ InternalNode_get_key(PageOf(t, b.parent), b.sep) =
           LeafNode_get_key(PageOf(t, b.right), 0)
    /\ RowSet(PageOf(t, b.left)) \cup RowSet(PageOf(t, b.right)) =
           { r \in RowSet(PageOf(s, b.left)) \cup RowSet(PageOf(s, b.right)) : r.id # k }
    /\ get_num_cells(PageOf(t, b.left)) + get_num_cells(PageOf(t, b.right)) + 1 =
           get_num_cells(PageOf(s, b.left)) + get_num_cells(PageOf(s, b.right))
    /\ RoutedTo(t, b.left) /\ RoutedTo(t, b.right)

\* C32: after a leaf borrow (from the left or from the right sibling) the
\* parent's separator between the two leaves is the smallest key of the
\* right-hand leaf, the two leaves together hold the records they held
\* before (less the removed one), and find routes every key of the two
\* leaves to the leaf that holds it.
C32_BorrowKeepsSeparator ==
    [][\A k \in Keys :
          (out'.op = "remove" /\ out'.key = k /\ BorrowOf(db, k).kind # "none") =>
              BorrowedRight(db, db', k, BorrowOf(db, k))]_vars

\* C33: free_page(n) with n <= 1 is refused and changes nothing: the
\* header and the content of pages 0 and 1 (the whole pager, in fact) are as
\* before the call.
C33_FreeRefusedBelowTwo ==
    [][(out'.op = "free_page" /\ out'.page <= ROOT_PAGE) => db' = db]_vars

\* a refused free_page while the free list holds a page
C33_Witness ==
    /\ out.op = "free_page" /\ out.page <= ROOT_PAGE
    /\ db.header.free_pages > 0
    /\ db.header.first_free_page > ROOT_PAGE

\* the free list as far as it can be followed in total_pages + 1 steps
FreeChain(s) == free_list(s, s.header.first_free_page, s.header.total_pages + 1)
\* the list is acyclic and ends at 0, holds only FREE pages below
\* total_pages, and has free_pages elements
FreeListSound(s) ==
    /\ \A i, j \in 1 .. Len(FreeChain(s)) : i < j => FreeChain(s)[i] # FreeChain(s)[j]
    /\ Len(FreeChain(s)) <= s.header.total_pages
    /\ \A i \in 1 .. Len(FreeChain(s)) :
          /\ get_type(PageOf(s, FreeChain(s)[i])) = NODE_FREE
          /\ FreeChain(s)[i] < s.header.total_pages
    /\ Len(FreeChain(s)) = s.header.free_pages

\* C34: after any sequence of allocate_page and free_page(n) calls with
\* n > 1 the free list is acyclic, ends at 0, holds only FREE pages with
\* number < total_pages, its length is free_pages, and allocate_page never
\* returns a page that is still in use.
C34_FreeListSound ==
    /\ FreeListSound(db)
    /\ out.op = "allocate_page" => ~out.in_use

\* the keys stored in the leaves of the leaf chain
ChainKeys(s) ==
    UNION { { leaf_keys(PageOf(s, L))[i] : i \in 1 .. get_num_cells(PageOf(s, L)) } :
            L \in ChainPages(s) }
\* the three bit positions of key k
HashPositions(k) == { hash1(k), hash2(k), hash3(k) }

\* C35: immediately after rebuild_bloom (at open or on demand) a Bloom bit
\* is set if and only if it is a hash position of a key stored on the leaf
\* chain; bits of keys removed earlier are cleared.
C35_RebuildBloomExact ==
    out.op \in {"open", "reopen", "rebuild_bloom"} =>
        \A pos \in 0 .. (BLOOM_BITS - 1) :
            get_bit(PageOf(db, HEADER_PAGE), pos) <=>
                \E k \in ChainKeys(db) : pos \in HashPositions(k)

\* a rebuild on demand after the workload removed its first key (only Churn
\* has Interleaved[1] out while Ascending[1] and Interleaved[2] are in): the
\* filter no longer reports the removed key
C35_Witness ==
    /\ out.op = "rebuild_bloom"
    /\ Interleaved[1] \notin ChainKeys(db)
    /\ {Ascending[1], Interleaved[2]} \subseteq ChainKeys(db)
    /\ ~possibly_contains(PageOf(db, HEADER_PAGE), Interleaved[1])

\* the unpinned resident pages of s, most recently fetched first
Unpinned(s) == SelectSeq(s.lru_order, LAMBDA n : ~is_pinned(s, n))

\* t is s after a get_page(n) that found n in the pool
LruHit(s, t, n) ==
    /\ t.lru_order = << n >> \o SeqRemove(s.lru_order, n)
    /\ t.pool = s.pool /\ t.file = s.file

\* t is s after a get_page(n) that missed with room in the pool
LruLoad(s, t, n) ==
    /\ t.lru_order = << n >> \o s.lru_order
    /\ DOMAIN t.pool = DOMAIN s.pool \cup {n}
    /\ \A m \in DOMAIN s.pool : t.pool[m] = s.pool[m]
    /\ t.file = s.file

\* t is s after a get_page(n) that missed with a full pool and took the
\* frame of victim: victim is written to the file as flush stamps it
LruEvict(s, t, n, victim) ==
    /\ ~is_pinned(s, victim)
    /\ t.lru_order = << n >> \o SeqRemove(s.lru_order, victim)
    /\ DOMAIN t.pool = (DOMAIN s.pool \ {victim}) \cup {n}
    /\ \A m \in DOMAIN s.pool : is_pinned(s, m) => Resident(t, m)
    /\ \A m \in DOMAIN s.pool \ {victim} : t.pool[m] = s.pool[m]
    /\ Len(t.file) > victim
    /\ t.file[victim + 1] = flush_stamp(victim, s.pool[victim])
    /\ \A m \in 1 .. Len(s.file) : m # victim + 1 => t.file[m] = s.file[m]

\* C36: a get_page hit moves the page to the MRU position; a miss with a
\* full pool takes the frame of the least recently fetched page among the
\* unpinned resident pages, never that of a pinned page, and writes the
\* victim to the file before the frame is released.
C36_LruWithPinning ==
    [][(out'.op = "get_page" /\ ~out'.exhausted) =>
          IF ~out'.miss THEN LruHit(db, db', out'.page)
          ELSE IF Cardinality(DOMAIN db.pool) < BUFFER_POOL_SIZE
          THEN LruLoad(db, db', out'.page)
          ELSE LruEvict(db, db', out'.page, Unpinned(db)[Len(Unpinned(db))])]_vars

\* a miss on a full pool in which the page fetched longest ago, the header
\* aside, is pinned, so that the victim was a more recently fetched page
C36_Witness ==
    /\ out.op = "get_page" /\ out.miss /\ ~out.exhausted
    /\ Cardinality(DOMAIN db.pool) = BUFFER_POOL_SIZE
    /\ Len(db.file) > 0
    /\ db.lru_order[Len(db.lru_order)] = HEADER_PAGE
    /\ is_pinned(db, db.lru_order[Len(db.lru_order) - 1])

\* C37: every LeafNode::insert issued by the tree (plain insert, both halves
\* of split_leaf, borrow, merge) runs on a leaf with total_free >=
\* record_size + 4 and leaves data_end >= LEAF_HEADER_SIZE + 4 * num_cells:
\* total_free never wraps and a merge never overflows the left leaf.
C37_InsertsAlwaysFit ==
    /\ ~db.unfit_insert
    /\ \A L \in LiveLeaves(db) :
          get_type(PageOf(db, L)) = NODE_LEAF =>
              /\ get_total_free(PageOf(db, L)) <= LEAF_USABLE_SPACE
              /\ get_data_end(PageOf(db, L)) >=
                     LEAF_HEADER_SIZE + SLOT_SIZE * get_num_cells(PageOf(db, L))

\* C38: in every reachable state every internal node of the tree has
\* 1 <= num_keys <= INTERNAL_MAX_CELLS: insert_child, the internal borrows and
\* merge_internals never leave a node with more keys than a node may hold.
C38_InternalKeysInRange ==
    \A n \in InternalPages(db) :
        /\ get_num_keys(PageOf(db, n)) >= 1
        /\ get_num_keys(PageOf(db, n)) <= INTERNAL_MAX_CELLS

\* an insert has split a leaf under a parent that now holds
\* INTERNAL_MAX_CELLS keys
C38_Witness ==
    /\ out.op = "insert" /\ out.status = "ok"
    /\ Cardinality(TreeLeaves(db)) > Cardinality(TreeLeaves(BTree_open(Pager_open(<< >>, 0))))
    /\ \E n \in InternalPages(db) : get_num_keys(PageOf(db, n)) = INTERNAL_MAX_CELLS

\* the depths at which the leaves under page n lie, n being at depth d
RECURSIVE leaf_depths(_, _, _, _)
leaf_depths(s, n, d, fuel) ==
    IF get_type(PageOf(s, n)) # NODE_INTERNAL \/ fuel = 0 THEN {d}
    ELSE UNION { leaf_depths(s, get_child(PageOf(s, n), i), d + 1, fuel - 1) :
                 i \in 0 .. get_num_keys(PageOf(s, n)) }

LeafDepths(s) == leaf_depths(s, ROOT_PAGE, 0, MaxKey)

\* the number of internal levels above the deepest leaf
Height(s) == CHOOSE d \in LeafDepths(s) : \A e \in LeafDepths(s) : e <= d

\* every leaf lies at the same depth, and find records one internal page per
\* level for every key
Balanced(s) ==
    /\ Cardinality(LeafDepths(s)) = 1
    /\ Ok(s) => \A k \in Keys :
                    Ok(find(s, k).s) => Len(find(s, k).path) = Height(s)

\* the height moves by one level at a time: up when an insert turns page 1
\* into a root with one key over the old root's copy, down when a remove
\* collapses a root that had one key into page 1
HeightStep(s, t, o) ==
    /\ Height(t) > Height(s) =>
          /\ Height(t) = Height(s) + 1
          /\ o.op = "insert"
          /\ get_type(PageOf(t, ROOT_PAGE)) = NODE_INTERNAL
          /\ is_root(PageOf(t, ROOT_PAGE))
          /\ get_num_keys(PageOf(t, ROOT_PAGE)) = 1
    /\ Height(t) < Height(s) =>
          /\ Height(t) = Height(s) - 1
          /\ o.op = "remove"
          /\ get_num_keys(PageOf(s, ROOT_PAGE)) = 1
          /\ is_root(PageOf(t, ROOT_PAGE))

\* C39: the tree stays height-balanced: in every state reached by insert and
\* remove all leaves lie at the same depth, the path recorded by find has
\* that depth for every key, and the height changes only at page 1, by one
\* level per root growth or root collapse.
C39_HeightBalanced ==
    [][Balanced(db) /\ Balanced(db') /\ HeightStep(db, db', out')]_vars

\* an insert has split the internal root: page 1 is a root with one key
\* over two internal nodes, and find records two pages on the way to a leaf
C39_Witness ==
    /\ out.op = "insert" /\ out.status = "ok"
    /\ Height(db) = 2
    /\ get_num_keys(PageOf(db, ROOT_PAGE)) = 1
    /\ Len(find(db, out.key).path) = 2

\* C40: with only page 0 pinned, no frame whose pointer a tree operation
\* obtained from get_page is evicted before the operation's last access
\* through that pointer: no insert, split, rebalance, merge, root growth or
\* root collapse ever uses a frame after its eviction.
C40_HeldFramesSurvive == db.fault # "uaf"

\* a remove has merged two nodes while the pool was full: a page of the tree
\* was evicted to make room and every frame the merge held stayed resident
C40_Witness ==
    /\ out.op = "remove" /\ out.ret
    /\ Ok(db)
    /\ DOMAIN db.pin_counts = {HEADER_PAGE}
    /\ Cardinality(DOMAIN db.pool) = BUFFER_POOL_SIZE
    /\ db.header.free_pages > 0
    /\ Resident(db, db.header.first_free_page)
    /\ get_type(PageOf(db, db.header.first_free_page)) = NODE_FREE
    /\ \E n \in InternalPages(db) \cup TreeLeaves(db) : ~Resident(db, n)

====
